---- MODULE Spec2Model ----
(***************************************************************************)
(* Model of the request-serving control plane of mlx-openai-tts:           *)
(*   - ModelManager (engine.py): cache of loaded (engine, adapter) pairs,  *)
(*     the active slot, load_all, load_default, get_engine;                *)
(*   - the POST /v1/audio/speech handler (server.py) with its four         *)
(*     (stream_format, response_format) branches;                          *)
(*   - stream_pcm_audio and stream_sse (audio.py).                         *)
(* The manager is driven by one startup thread (lifespan) and by request   *)
(* threads.  Every read and write of a manager field is a step of its own, *)
(* as it is for the Python interpreter; the code of a critical section     *)
(* that only reads fields nobody else can write is taken in one step.      *)
(***************************************************************************)
EXTENDS Integers, Sequences, FiniteSets, TLC

\* ------------------------------------------------------------ catalog
Models == {"m1", "m2"}
ModelsSeq == <<"m1", "m2">>
DefaultModel == "m1"
ModelType == [m \in Models |-> IF m = "m1" THEN "kokoro" ELSE "chatterbox"]
SpecVoices == [m \in Models |-> IF m = "m1" THEN {"v1"} ELSE {}]
SpecDefaultVoice == [m \in Models |-> IF m = "m1" THEN "v1" ELSE "none"]
\* model.sample_rate of the backend loaded for each model
SampleRate == [m \in Models |-> IF m = "m1" THEN 24000 ELSE 22050]
\* cfg.max_chars
MaxChars == 2

\* ------------------------------------------------------------ request bodies
\* the requests that run concurrently ask for wav or mp3 where a container
\* format is asked for, and get chunks of one sample
ServedFormats == {"wav", "mp3"}
ServedSizes == {1}
StreamFormats == {"audio", "sse"}
ResponseFormats == {"wav", "mp3", "opus", "pcm", "aac", "flac"}
ContainerFormats == ResponseFormats \ {"pcm"}

\* ------------------------------------------------------------ bounds
MaxChunks == 2
MaxLoads == 2
MaxSamples == 1

\* ------------------------------------------------------------ processes
Requests == {"r1", "r2"}
Boot == "boot"
Procs == Requests \cup {Boot}
Free == "free"
None == "none"
NoEngine == <<"none", 0>>
NoRet == [engine |-> NoEngine, spec |-> None, adapter |-> NoEngine]
NoBody == [authorization |-> {}, model |-> "none", input |-> <<>>]
NoResponse == [media_type |-> "none", headers |-> [h \in {} |-> ""], length |-> -1]
NoFormat == [stream_format |-> "none", response_format |-> "none"]
NoCall == [fn |-> "none"]

VARIABLES
    engines_by_id,   \* ModelManager._engines_by_id: model id -> (engine, adapter) pair
    loads,           \* number of backends loaded so far, per model id
    active_key, active_spec, active_engine, active_adapter,
    infer_lock,      \* holder of the process-wide lock, or Free
    pc,              \* position of every thread
    idx,             \* load_all: position in registry.models
    key,             \* audio_speech: model_key
    site,            \* which call of get_engine is running: "rv" or "ge"
    ret,             \* get_engine: the triple being built / returned
    branch,          \* audio_speech: the (stream_format, response_format) branch
    produced,        \* chunks the backend generator has yielded so far
    status,          \* HTTP status committed: 0 (none yet), 200, 400
    events,          \* SSE events written to the response
    held,            \* the PCM chunk yielded by the generator, not yet written out
    backend,         \* state of the backend's chunk generator for this request
    result,          \* how the request ended
    body,            \* audio_speech: the request body (model, input)
    fmt,             \* audio_speech: response_format
    samples,         \* number of samples of the array synthesize_full returned
    response,        \* the committed response: media type, headers, body length
    boot_error,      \* the exception that ended startup
    payload,         \* the models JSON document given to load_registry_payload
    registry,        \* what load_registry_payload made of it
    call,            \* a function of the adapters, the engine or auth, with its arguments
    out              \* what that call returned or raised

vars == <<engines_by_id, loads, active_key, active_spec, active_engine,
          active_adapter, infer_lock, pc, idx, key, site, ret, branch,
          produced, held, backend, status, events, result, body, fmt, samples,
          response, boot_error, payload, registry, call, out>>

mgrVars == <<engines_by_id, loads, active_key, active_spec, active_engine, active_adapter>>
activeVars == <<active_key, active_spec, active_engine, active_adapter>>
pipeVars == <<branch, produced, held, backend, status, events, result>>
bodyVars == <<body, fmt, samples, response>>
startVars == <<boot_error, payload, registry>>
unitVars == <<call, out>>

\* ------------------------------------------------------------ strings
\* a string whose characters matter is a sequence of one-character strings;
\* " " stands for every whitespace character.  str.strip():
RECURSIVE LStrip(_)
LStrip(s) == IF s # <<>> /\ Head(s) = " " THEN LStrip(Tail(s)) ELSE s
RECURSIVE RStrip(_)
RStrip(s) == IF s # <<>> /\ s[Len(s)] = " " THEN RStrip(SubSeq(s, 1, Len(s) - 1)) ELSE s
Strip(s) == RStrip(LStrip(s))
\* re.sub(r"\s+", " ", text): every run of whitespace becomes one space
RECURSIVE Collapse(_)
Collapse(s) ==
    IF Len(s) < 2 THEN s
    ELSE IF s[1] = " " /\ s[2] = " " THEN Collapse(Tail(s))
    ELSE <<s[1]>> \o Collapse(Tail(s))
\* server._normalize_text
NormalizeText(s) == Strip(Collapse(s))
\* an optional string is the empty set (None) or the set of the one string
Unset == {}
Some(s) == {s}
Range(f) == {f[i] : i \in DOMAIN f}

\* ------------------------------------------------------------ registry
\* the models JSON documents: ids, voices lists and default voices with and
\* without blanks, a default_model that is absent, empty or given
VoiceChoices ==
    { [voices |-> <<>>, default_voice |-> Unset],
      [voices |-> <<<<"v">>>>, default_voice |-> Unset],
      [voices |-> <<<<"v">>>>, default_voice |-> Some(<<"v">>)],
      [voices |-> <<<<"v">>>>, default_voice |-> Some(<<"w">>)],
      [voices |-> <<<<" ">>>>, default_voice |-> Some(<<"w">>)],
      [voices |-> <<<<" ">>>>, default_voice |-> Unset],
      [voices |-> <<<<" ">>, <<"v">>>>, default_voice |-> Unset],
      [voices |-> <<<<" ", "v">>>>, default_voice |-> Unset],
      [voices |-> <<<<"v">>, <<"w">>>>, default_voice |-> Unset] }
MaxModels == 2
Payloads ==
    LET specs == { [id |-> i, repo_id |-> <<"r">>, voices |-> v.voices,
                    default_voice |-> v.default_voice] :
                     i \in {<<>>, <<" ">>, <<"a">>, <<" ", "a">>, <<"b">>},
                     v \in VoiceChoices } IN
    { [default_model |-> d, models |-> ms] :
        d \in {Unset, Some(<<>>), Some(<<"a">>), Some(<<"b">>)},
        ms \in UNION { [1..n -> specs] : n \in 0..MaxModels } }
\* the document of the catalog the server of this model runs with
CatalogPayload ==
    [default_model |-> Unset,
     models |-> << [id |-> <<"a">>, repo_id |-> <<"r">>, voices |-> <<<<"v">>>>,
                    default_voice |-> Unset],
                   [id |-> <<"b">>, repo_id |-> <<"r">>, voices |-> <<>>,
                    default_voice |-> Unset] >>]

NotLoaded ==
    [state |-> "not loaded", error |-> "", keys |-> {}, default_model |-> <<>>, models |-> <<>>]
RegistryError(msg) ==
    [state |-> "error", error |-> msg, keys |-> {}, default_model |-> <<>>, models |-> <<>>]

\* load_registry_payload, lines 59-66 for one spec: the voices kept, the
\* default voice after the auto-fill, and whether the spec is accepted
StrippedVoices(spec) == SelectSeq([i \in DOMAIN spec.voices |-> Strip(spec.voices[i])],
                                  LAMBDA v : v # <<>>)
\* an auto-fill that takes the last voice of the list
FilledDefaultVoiceLast(spec) ==
    IF StrippedVoices(spec) # <<>> /\ spec.default_voice = Unset
    THEN Some(StrippedVoices(spec)[Len(StrippedVoices(spec))]) ELSE spec.default_voice
FilledDefaultVoice(spec) ==
    IF StrippedVoices(spec) # <<>> /\ spec.default_voice = Unset
    THEN Some(StrippedVoices(spec)[1]) ELSE spec.default_voice
DefaultVoiceAccepted(spec) ==
    ~ (/\ FilledDefaultVoice(spec) # Unset
       /\ StrippedVoices(spec) # <<>>
       /\ FilledDefaultVoice(spec) \cap Range(StrippedVoices(spec)) = {})

\* load_registry_payload, lines 50-67: the loop over registry.models; the
\* result is the error of the first spec refused, or the keys of models_by_id
RECURSIVE ScanModels(_, _, _)
ScanModels(ms, i, keys) ==
    IF i > Len(ms) THEN [error |-> "", keys |-> keys]
    ELSE IF Strip(ms[i].id) = <<>> THEN [error |-> "Model id must be non-empty", keys |-> keys]
    ELSE IF Strip(ms[i].id) \in keys THEN [error |-> "Duplicate model id", keys |-> keys]
    ELSE IF Strip(ms[i].repo_id) = <<>> THEN [error |-> "repo_id must be non-empty", keys |-> keys]
    ELSE IF ~DefaultVoiceAccepted(ms[i])
         THEN [error |-> "default_voice not in voices list", keys |-> keys]
    ELSE ScanModels(ms, i + 1, keys \cup {Strip(ms[i].id)})

\* line 69: registry.default_model or registry.models[0].id
DefaultModelOf(p) ==
    IF p.default_model # Unset /\ p.default_model # Some(<<>>)
    THEN CHOOSE d \in p.default_model : TRUE
    ELSE p.models[1].id

\* load_registry_payload: the ResolvedRegistry, or the RuntimeError raised
LoadRegistryPayload(p) ==
    IF p.models = <<>> THEN RegistryError("Models JSON must contain at least one model")
    ELSE IF ScanModels(p.models, 1, {}).error # ""
    THEN RegistryError(ScanModels(p.models, 1, {}).error)
    ELSE IF DefaultModelOf(p) \notin ScanModels(p.models, 1, {}).keys
    THEN RegistryError("default_model not found in models list")
    ELSE [state |-> "loaded", error |-> "", keys |-> ScanModels(p.models, 1, {}).keys,
          default_model |-> DefaultModelOf(p),
          \* the specs as the loop leaves them: voices and default_voice are
          \* rewritten in place (lines 60-62), the id is not
          models |-> [i \in DOMAIN p.models |->
                         [id |-> p.models[i].id, repo_id |-> p.models[i].repo_id,
                          voices |-> StrippedVoices(p.models[i]),
                          default_voice |-> FilledDefaultVoice(p.models[i])]]]

Truthy(e) == e # NoEngine
Goto(p, l) == pc' = [pc EXCEPT ![p] = l]

InitServer ==
    /\ engines_by_id = [m \in Models |-> NoEngine]
    /\ loads = [m \in Models |-> 0]
    /\ active_key = None
    /\ active_spec = None
    /\ active_engine = NoEngine
    /\ active_adapter = NoEngine
    /\ infer_lock = Free
    /\ pc = [p \in Procs |-> IF p = Boot THEN "s_idle" ELSE "idle"]
    /\ idx = 1
    /\ key = [r \in Requests |-> None]
    /\ site = [r \in Requests |-> None]
    /\ ret = [p \in Procs |-> NoRet]
    /\ branch = [r \in Requests |-> None]
    /\ produced = [r \in Requests |-> 0]
    /\ held = [r \in Requests |-> None]
    /\ backend = [r \in Requests |-> "idle"]
    /\ status = [r \in Requests |-> 0]
    /\ events = [r \in Requests |-> <<>>]
    /\ result = [r \in Requests |-> None]
    /\ body = [r \in Requests |-> NoBody]
    /\ fmt = [r \in Requests |-> NoFormat]
    /\ samples = [r \in Requests |-> 0]
    /\ response = [r \in Requests |-> NoResponse]
    /\ boot_error = <<"none", "none">>
    /\ call = NoCall
    /\ out = [ok |-> TRUE, value |-> {}, error |-> ""]

\* lifespan lines 104-111: the registry is loaded, the manager is constructed
Init ==
    /\ InitServer
    /\ payload = CatalogPayload
    /\ registry = LoadRegistryPayload(CatalogPayload)

\* ------------------------------------------------------------ the lock
\* threading.Lock: acquire blocks until the lock is free.
Acquire(p) == infer_lock = Free /\ infer_lock' = p
Release(p) == infer_lock' = Free

\* ------------------------------------------------------------ ModelManager
\* _load_engine: a fresh (engine, adapter) pair for model m.
NewEngine(m) == <<m, loads[m] + 1>>

\* a cache that keeps only the entry loaded last
StoreLoadedEvict(m) ==
    /\ loads[m] < MaxLoads
    /\ engines_by_id' = [x \in Models |-> IF x = m THEN NewEngine(m) ELSE NoEngine]
    /\ loads' = [loads EXCEPT ![m] = @ + 1]

\* _get_cached_engine when the entry is absent and the load succeeds.
StoreLoaded(m) ==
    /\ loads[m] < MaxLoads
    /\ engines_by_id' = [engines_by_id EXCEPT ![m] = NewEngine(m)]
    /\ loads' = [loads EXCEPT ![m] = @ + 1]

\* the condition of the fast path, and of the re-check under the lock
IsActive(k) ==
    /\ active_key = k
    /\ Truthy(active_engine)
    /\ active_spec # None
    /\ Truthy(active_adapter)


\* ------------------------------------------------------------ adapters
\* adapter.resolve_voice of the adapter created for model m: TRUE when it
\* returns, FALSE when it raises.  KokoroAdapter.resolve_voice, and
\* ChatterboxAdapter.resolve_voice over a reference directory holding v1.wav
AdapterResolves(m, v) ==
    IF ModelType[m] = "kokoro"
    THEN (IF v = None THEN SpecDefaultVoice[m] # None
          ELSE SpecVoices[m] = {} \/ v \in SpecVoices[m])
    ELSE (IF v = None \/ v = "default" THEN TRUE ELSE v = "v1")

\* ---- the functions of the adapters, called on their own
\* what a call gives: the value returned (an optional: Unset is None), or the
\* message of the exception raised
Returns(v) == [ok |-> TRUE, value |-> v, error |-> ""]
Raises(msg) == [ok |-> FALSE, value |-> Unset, error |-> msg]
\* everything a call of one of these functions leaves alone
UnitFrame == UNCHANGED <<mgrVars, infer_lock, pc, idx, key, site, ret, pipeVars, bodyVars,
                         startVars>>

\* a resolve_voice that never looks at the voices list
KokoroResolveVoiceAny(spec, requested) ==
    IF requested = Unset
    THEN IF spec.default_voice = Unset THEN Raises("voice is required for this model")
         ELSE Returns(spec.default_voice)
    ELSE LET voice_id == Strip(CHOOSE x \in requested : TRUE) IN
         IF voice_id = <<>> THEN Raises("voice must be non-empty")
         ELSE Returns(Some(voice_id))

\* KokoroAdapter.resolve_voice, kokoro.py lines 36-46
KokoroResolveVoice(spec, requested) ==
    IF requested = Unset
    THEN IF spec.default_voice = Unset THEN Raises("voice is required for this model")
         ELSE Returns(spec.default_voice)
    ELSE LET voice_id == Strip(CHOOSE x \in requested : TRUE) IN
         IF voice_id = <<>> THEN Raises("voice must be non-empty")
         ELSE IF spec.voices # <<>> /\ voice_id \notin Range(spec.voices)
         THEN Raises("Unknown voice")
         ELSE Returns(Some(voice_id))

KokoroCall ==
    /\ call = NoCall
    /\ \E spec \in { [voices |-> vs, default_voice |-> d] :
                         vs \in {<<>>, <<<<"v">>>>, <<<<"v">>, <<"w">>>>},
                         d \in {Unset, Some(<<"v">>)} },
          requested \in {Unset, Some(<<>>), Some(<<" ">>), Some(<<"v">>),
                         Some(<<" ", "v">>), Some(<<"w">>), Some(<<"x">>)} :
          /\ call' = [fn |-> "KokoroAdapter.resolve_voice", spec |-> spec,
                      requested |-> requested]
          /\ out' = KokoroResolveVoice(spec, requested)
    /\ UnitFrame

\* ---- ChatterboxAdapter: chatterbox.py lines 40-143
\* a string is a sequence of pieces: the separator "/", the period ".", the
\* blank " ", and runs of letters that differ by their case only
\* str.lower
LowerStr(t) ==
    [i \in DOMAIN t |->
        CASE t[i] \in {"CLIP", "Clip"} -> "clip"
          [] t[i] = "WAV" -> "wav"
          [] t[i] \in {"DEFAULT", "Default"} -> "default"
          [] OTHER -> t[i]]
Max(ks) == CHOOSE k \in ks : \A j \in ks : j <= k
\* os.path.basename: what follows the last separator
Basename(t) ==
    LET seps == {i \in DOMAIN t : t[i] = "/"} IN
    IF seps = {} THEN t ELSE SubSeq(t, Max(seps) + 1, Len(t))
\* os.path.splitext: the extension starts at the last period of the last
\* component, unless only periods precede it there
SplitExt(t) ==
    LET sep == Max({0} \cup {i \in DOMAIN t : t[i] = "/"})
        dot == Max({0} \cup {i \in DOMAIN t : t[i] = "."}) IN
    IF dot > sep /\ \E j \in (sep + 1)..(dot - 1) : t[j] # "."
    THEN [root |-> SubSeq(t, 1, dot - 1), ext |-> SubSeq(t, dot, Len(t))]
    ELSE [root |-> t, ext |-> <<>>]
\* os.path.join(voice_clone_dir, name)
Join(d, name) == d \o <<"/">> \o name

\* the reference directory: TTS_VOICE_CLONE_DIR unset, empty, naming nothing,
\* or naming a directory whose entries are files or directories
EntryNames == {<<"clip", ".", "wav">>, <<"CLIP", ".", "WAV">>, <<"clip", ".", "flac">>}
CloneDirs ==
    { [path |-> Unset, isdir |-> FALSE, entries |-> [n \in EntryNames |-> "absent"]],
      [path |-> Some(<<>>), isdir |-> FALSE, entries |-> [n \in EntryNames |-> "absent"]],
      [path |-> Some(<<"d">>), isdir |-> FALSE, entries |-> [n \in EntryNames |-> "absent"]] }
    \cup { [path |-> Some(<<"d">>), isdir |-> TRUE, entries |-> e] :
               e \in [EntryNames -> {"absent", "file", "dir"}] }
\* the files that exist beside and above the reference directory, by the
\* name that reaches them from it
OutsideFiles == {<<".", ".", "/", "clip", ".", "wav">>, <<"sub", "/", "clip", ".", "wav">>}
\* os.path.isfile(os.path.join(voice_clone_dir, name))
IsFile(dir, name) ==
    IF name \in EntryNames THEN dir.entries[name] = "file" ELSE name \in OutsideFiles

\* a _find_voice_file that knows the exact name only
FindVoiceFileExact(dir, filename) ==
    IF IsFile(dir, filename) THEN {filename} ELSE {}

\* _find_voice_file, lines 128-143: the names it can resolve to, none when the
\* file is missing.  The exact name wins; otherwise the first entry of the
\* listing that matches without regard to case and is a file, the listing
\* being in arbitrary order.
FindVoiceFile(dir, filename) ==
    IF IsFile(dir, filename) THEN {filename}
    \* os.listdir(voice_clone_dir), in any order
    ELSE {e \in {n \in EntryNames : dir.entries[n] # "absent"} :
              LowerStr(e) = LowerStr(filename) /\ IsFile(dir, e)}

\* a test that refuses "." and ".." only
IsBareFilenameDots(value) == value \notin {<<".">>, <<".", ".">>}

\* _resolve_ref_audio, lines 80-85: the value is a filename, not a path
IsBareFilename(value) ==
    /\ value \notin {<<".">>, <<".", ".">>}
    /\ Basename(value) = value
    /\ "/" \notin Range(value)

\* the outcomes of _find_voice_file(dir, filename) with raise_if_missing
FoundOrRaises(dir, filename) ==
    IF FindVoiceFile(dir, filename) = {} THEN {Raises("Voice file not found")}
    ELSE {Returns(Some(Join(CHOOSE d \in dir.path : TRUE, e))) : e \in FindVoiceFile(dir, filename)}

\* _resolve_ref_audio, lines 77-105: the set of its possible outcomes
ResolveRefAudio(dir, voice) ==
    LET value == Strip(voice)
        wav == SplitExt(value).root \o <<".", "wav">>
        flac == SplitExt(value).root \o <<".", "flac">> IN
    IF value = <<>> THEN {Raises("voice must be non-empty")}
    ELSE IF ~IsBareFilename(value) THEN {Raises("voice must be a filename, not a path")}
    ELSE IF dir.path \in {Unset, Some(<<>>)}
    THEN {Raises("Voice cloning requires TTS_VOICE_CLONE_DIR to be set")}
    ELSE IF ~dir.isdir THEN {Raises("Voice clone directory does not exist")}
    ELSE IF SplitExt(value).ext # <<>>
    THEN IF LowerStr(SplitExt(value).ext) \notin {<<".", "wav">>, <<".", "flac">>}
         THEN {Raises("Unsupported voice extension")}
         ELSE FoundOrRaises(dir, value)
    ELSE IF FindVoiceFile(dir, wav) # {} THEN FoundOrRaises(dir, wav)
    ELSE IF FindVoiceFile(dir, flac) # {} THEN FoundOrRaises(dir, flac)
    ELSE {Raises("Voice file not found")}

\* a resolve_voice that knows "default" in small letters only
ChatterboxResolveVoiceSmall(dir, requested) ==
    IF requested = Unset THEN {Returns(Unset)}
    ELSE LET value == Strip(CHOOSE x \in requested : TRUE) IN
         IF value = <<>> THEN {Raises("voice must be non-empty")}
         ELSE IF value = <<"default">> THEN {Returns(Unset)}
         ELSE ResolveRefAudio(dir, value)

\* ChatterboxAdapter.resolve_voice, lines 53-61
ChatterboxResolveVoice(dir, requested) ==
    IF requested = Unset THEN {Returns(Unset)}
    ELSE LET value == Strip(CHOOSE x \in requested : TRUE) IN
         IF value = <<>> THEN {Raises("voice must be non-empty")}
         ELSE IF LowerStr(value) = <<"default">> THEN {Returns(Unset)}
         ELSE ResolveRefAudio(dir, value)

ChatterboxCall ==
    /\ call = NoCall
    /\ \E dir \in CloneDirs,
          requested \in
              { Unset, Some(<<>>), Some(<<" ">>),
                Some(<<"default">>), Some(<<"DEFAULT">>), Some(<<" ", "Default", " ">>),
                Some(<<"clip">>), Some(<<"CLIP">>), Some(<<"clip", ".", "wav">>),
                Some(<<"Clip", ".", "wav">>), Some(<<"clip", ".", "flac">>),
                Some(<<"clip", ".", "mp3">>),
                Some(<<".">>), Some(<<".", ".">>), Some(<<".", ".", "/", "clip">>),
                Some(<<".", ".", "/", "clip", ".", "wav">>), Some(<<"sub", "/", "clip">>) } :
          /\ call' = [fn |-> "ChatterboxAdapter.resolve_voice", dir |-> dir,
                      requested |-> requested]
          /\ out' \in ChatterboxResolveVoice(dir, requested)
    /\ UnitFrame

\* ---- _build_generate_kwargs of the two adapters
\* the parameter names inspect.signature finds on the backend's generate
ParamNames == {"text", "voice", "speed", "ref_audio", "audio_prompt_path", "audio_prompt"}
\* base.py line 198
SupportsGenerateParam(params, name) == name \in params
\* float(speed)
\* a dict is the set of its (key, value) pairs
SpeedKwargs(params, speed) ==
    IF speed # Unset /\ SupportsGenerateParam(params, "speed")
    THEN {<<"speed", <<"float", CHOOSE n \in speed : TRUE>>>>} ELSE {}
\* kokoro.py lines 48-77
KokoroBuildGenerateKwargs(params, text, voice, speed) ==
    IF voice = Unset THEN Raises("voice is required for this model")
    ELSE IF ~SupportsGenerateParam(params, "voice")
    THEN Raises("MLX model does not accept voice inputs")
    ELSE Returns({<<"text", text>>, <<"voice", CHOOSE v \in voice : TRUE>>}
                     \cup SpeedKwargs(params, speed))
\* a builder that passes the voice under every alias the backend accepts
ChatterboxBuildGenerateKwargsAll(params, text, voice, speed) ==
    LET base == {<<"text", text>>} \cup SpeedKwargs(params, speed)
        names == params \cap {"ref_audio", "audio_prompt_path", "audio_prompt"} IN
    IF voice = Unset THEN Returns(base)
    ELSE IF names = {}
    THEN Raises("MLX chatterbox model does not accept reference audio inputs")
    ELSE Returns(base \cup {<<a, CHOOSE x \in voice : TRUE>> : a \in names})
\* chatterbox.py lines 145-177
ChatterboxBuildGenerateKwargs(params, text, voice, speed) ==
    LET base == {<<"text", text>>} \cup SpeedKwargs(params, speed)
        v == CHOOSE x \in voice : TRUE IN
    IF voice = Unset THEN Returns(base)
    ELSE IF SupportsGenerateParam(params, "ref_audio")
    THEN Returns(base \cup {<<"ref_audio", v>>})
    ELSE IF SupportsGenerateParam(params, "audio_prompt_path")
    THEN Returns(base \cup {<<"audio_prompt_path", v>>})
    ELSE IF SupportsGenerateParam(params, "audio_prompt")
    THEN Returns(base \cup {<<"audio_prompt", v>>})
    ELSE Raises("MLX chatterbox model does not accept reference audio inputs")

BuildCall ==
    /\ call = NoCall
    /\ \E adapter \in {"kokoro", "chatterbox"}, params \in SUBSET ParamNames,
          text \in {<<"h">>}, voice \in {Unset, Some(<<"v">>)},
          speed \in {Unset, Some(1)} :
          /\ call' = [fn |-> "_build_generate_kwargs", adapter |-> adapter,
                      params |-> params, text |-> text, voice |-> voice, speed |-> speed]
          /\ out' = IF adapter = "kokoro"
                    THEN KokoroBuildGenerateKwargs(params, text, voice, speed)
                    ELSE ChatterboxBuildGenerateKwargs(params, text, voice, speed)
    /\ UnitFrame

\* ---- ModelAdapter.iter_chunks and synthesize_full: base.py lines 131-187
MaxResults == 3
\* what a result of model.generate carries: no audio attribute, audio None,
\* or an array (ndim, rows); a 1-D array has its samples in rows[1]
GenerateResults ==
    { [kind |-> "missing"], [kind |-> "none"] }
    \cup { [kind |-> "array", ndim |-> 1, rows |-> <<data>>] :
               data \in {<<1>>, <<2, 3>>, <<>>} }
    \cup { [kind |-> "array", ndim |-> 2, rows |-> rows] :
               rows \in {<<<<4>>>>, <<<<5>>, <<6>>>>} }
RECURSIVE SeqsUpTo(_, _)
SeqsUpTo(S, n) ==
    IF n = 0 THEN {<<>>}
    ELSE LET shorter == SeqsUpTo(S, n - 1) IN
         shorter \cup {Append(q, x) : q \in shorter, x \in S}
\* audio.coerce_audio_1d_float32: a one-row 2-D array becomes its row, any
\* other array that is not 1-D is refused
CoerceOK(a) == a.ndim = 1 \/ (a.ndim = 2 /\ Len(a.rows) = 1)
\* the generator of iter_chunks drained: the chunks yielded, and the exception
\* that ended it ("" when it ran to its end)
Drained(chunks, error) == [chunks |-> chunks, error |-> error]
RECURSIVE DrainResults(_, _)
DrainResults(results, chunks) ==
    IF results = <<>> THEN Drained(chunks, "")
    ELSE LET res == Head(results) IN
         IF res.kind = "missing"
         THEN Drained(chunks, "MLX generate result missing audio attribute.")
         ELSE IF res.kind = "none" THEN DrainResults(Tail(results), chunks)
         ELSE IF ~CoerceOK(res) THEN Drained(chunks, "Unexpected audio shape")
         ELSE DrainResults(Tail(results), Append(chunks, res.rows[1]))
\* an iter_chunks that takes audio None for a missing payload
IterChunksStrict(loaded, params, voice, results) ==
    IF ~loaded THEN Drained(<<>>, "MLX engine not loaded.")
    ELSE LET kwargs == KokoroBuildGenerateKwargs(params, <<"h">>, voice, Unset) IN
         IF ~kwargs.ok THEN Drained(<<>>, kwargs.error)
         ELSE IF \E i \in DOMAIN results : results[i].kind = "none"
         THEN Drained(<<>>, "MLX generate result missing audio attribute.")
         ELSE DrainResults(results, <<>>)
IterChunks(loaded, params, voice, results) ==
    IF ~loaded THEN Drained(<<>>, "MLX engine not loaded.")
    ELSE LET kwargs == KokoroBuildGenerateKwargs(params, <<"h">>, voice, Unset) IN
         IF ~kwargs.ok THEN Drained(<<>>, kwargs.error)
         ELSE DrainResults(results, <<>>)
\* np.concatenate(chunks, axis=0)
RECURSIVE Concatenate(_)
Concatenate(chunks) ==
    IF chunks = <<>> THEN <<>> ELSE Head(chunks) \o Concatenate(Tail(chunks))
SynthesizeFull(loaded, params, voice, results) ==
    LET d == IterChunks(loaded, params, voice, results) IN
    IF d.error # "" THEN Raises(d.error)
    ELSE IF d.chunks = <<>>
    THEN Raises("MLX pipeline produced no audio. Check voice configuration.")
    ELSE Returns(Some(IF Len(d.chunks) > 1 THEN Concatenate(d.chunks) ELSE d.chunks[1]))

\* list(engine.iter_chunks(...)) and engine.synthesize_full(...), engine.py 48-84
EngineCall ==
    /\ call = NoCall
    /\ \E fn \in {"iter_chunks", "synthesize_full"}, loaded \in BOOLEAN,
          params \in {ParamNames, {"text"}}, voice \in {Some(<<"v">>)},
          results \in SeqsUpTo(GenerateResults, MaxResults) :
          /\ call' = [fn |-> fn, loaded |-> loaded, params |-> params,
                      voice |-> voice, results |-> results]
          /\ out' = IF fn = "synthesize_full"
                    THEN SynthesizeFull(loaded, params, voice, results)
                    ELSE LET d == IterChunks(loaded, params, voice, results) IN
                         [ok |-> d.error = "", value |-> Some(d.chunks), error |-> d.error]
    /\ UnitFrame

\* ---- ModelManager.load_default on its own: engine.py lines 131-148
\* what the call did: the loads it made, whether it set the default model
\* active, the voice and the text of its warmup, the synthesize_full calls
Did(ok, error, loads_, active, voice, text, synths) ==
    [ok |-> ok, error |-> error,
     value |-> Some([loads |-> loads_, active |-> active, voice |-> voice,
                     text |-> text, synths |-> synths])]
\* a load_default that warms up whenever there is a text
LoadDefaultAlwaysWarm(adapter, dir, default_voice, spec_warmup, warmup_text, cached, fails) ==
    LET loads_ == IF cached THEN 0 ELSE 1
        truthy(o) == o \notin {Unset, Some(<<>>)}
        resolved ==
            IF ~truthy(default_voice) THEN {Returns(Unset)}
            ELSE IF adapter = "kokoro"
            THEN {KokoroResolveVoice([voices |-> <<>>, default_voice |-> default_voice],
                                     default_voice)}
            ELSE ChatterboxResolveVoice(dir, default_voice)
        text == IF truthy(spec_warmup) THEN CHOOSE t \in spec_warmup : TRUE ELSE warmup_text
    IN
    IF ~cached /\ fails = "load" THEN {Did(FALSE, "load", 0, FALSE, Unset, <<>>, 0)}
    ELSE { IF ~v.ok THEN Did(FALSE, v.error, loads_, TRUE, Unset, <<>>, 0)
           ELSE IF text # <<>>
           THEN Did(fails # "synthesize_full",
                    IF fails = "synthesize_full" THEN "synthesize_full" ELSE "",
                    loads_, TRUE, v.value, text, 1)
           ELSE Did(TRUE, "", loads_, TRUE, v.value, text, 0) : v \in resolved }
\* lines 137-142: the cached pair or a load, the active slot; 143-145: the
\* default voice, if set and not empty, resolved by the adapter; 146: the
\* text; 147-148: the warmup, when there is a text and a voice or no need of one
LoadDefault(adapter, dir, default_voice, spec_warmup, warmup_text, cached, fails) ==
    LET loads_ == IF cached THEN 0 ELSE 1
        truthy(o) == o \notin {Unset, Some(<<>>)}
        resolved ==
            IF ~truthy(default_voice) THEN {Returns(Unset)}
            ELSE IF adapter = "kokoro"
            THEN {KokoroResolveVoice([voices |-> <<>>, default_voice |-> default_voice],
                                     default_voice)}
            ELSE ChatterboxResolveVoice(dir, default_voice)
        text == IF truthy(spec_warmup) THEN CHOOSE t \in spec_warmup : TRUE ELSE warmup_text
    IN
    IF ~cached /\ fails = "load" THEN {Did(FALSE, "load", 0, FALSE, Unset, <<>>, 0)}
    ELSE { IF ~v.ok THEN Did(FALSE, v.error, loads_, TRUE, Unset, <<>>, 0)
           ELSE IF text # <<>> /\ (v.value # Unset \/ adapter # "kokoro")
           THEN Did(fails # "synthesize_full",
                    IF fails = "synthesize_full" THEN "synthesize_full" ELSE "",
                    loads_, TRUE, v.value, text, 1)
           ELSE Did(TRUE, "", loads_, TRUE, v.value, text, 0) : v \in resolved }

LoadDefaultCall ==
    /\ call = NoCall
    /\ \E adapter \in {"kokoro", "chatterbox"},
          dir \in {d \in CloneDirs : d.isdir /\ d.entries[<<"CLIP", ".", "WAV">>] = "absent"
                                      /\ d.entries[<<"clip", ".", "flac">>] = "absent"},
          default_voice \in {Unset, Some(<<>>), Some(<<" ">>), Some(<<" ", "v">>),
                             Some(<<"default">>), Some(<<"clip">>)},
          spec_warmup \in {Unset, Some(<<>>), Some(<<" ">>), Some(<<"w">>)},
          warmup_text \in {<<>>, <<"h">>},
          cached \in BOOLEAN, fails \in {"none", "load", "synthesize_full"} :
          /\ call' = [fn |-> "load_default", adapter |-> adapter, dir |-> dir,
                      default_voice |-> default_voice, spec_warmup |-> spec_warmup,
                      warmup_text |-> warmup_text, cached |-> cached, fails |-> fails]
          /\ out' \in LoadDefault(adapter, dir, default_voice, spec_warmup, warmup_text,
                                   cached, fails)
    /\ UnitFrame

\* ---- auth.require_auth: auth.py lines 14-33
\* header values and keys are sequences of the scheme word, blanks and
\* characters, of which "é" is not ASCII
BearerPrefix == <<"Bearer", " ">>
\* str.startswith
StartsWith(t, p) == Len(t) >= Len(p) /\ SubSeq(t, 1, Len(p)) = p
\* hmac.compare_digest on two str: TypeError unless both are ASCII
CompareDigest(a, b) ==
    IF "é" \in Range(a) \cup Range(b) THEN "TypeError"
    ELSE IF a = b THEN "equal" ELSE "different"

RequireAuth(authorization, api_key) ==
    IF api_key = Unset THEN Returns(Unset)
    ELSE IF authorization \in {Unset, Some(<<>>)}
            \/ ~StartsWith(CHOOSE a \in authorization : TRUE, BearerPrefix)
    THEN Raises("401 Missing Bearer token")
    \* removeprefix of a header that starts with the prefix, then strip
    ELSE LET header == CHOOSE a \in authorization : TRUE
             token == Strip(SubSeq(header, Len(BearerPrefix) + 1, Len(header)))
             cmp == CompareDigest(token, CHOOSE k \in api_key : TRUE) IN
         IF cmp = "TypeError" THEN Raises("TypeError")
         ELSE IF cmp = "different" THEN Raises("401 Invalid token")
         ELSE Returns(Unset)

RequireAuthCall ==
    /\ call = NoCall
    /\ \E authorization \in
              { Unset, Some(<<>>), Some(<<"Bearer", " ", "k">>),
                Some(<<"Bearer", " ", "x">>), Some(<<"Bearer", " ", " ", "k", " ">>),
                Some(<<"Bearer", " ", "é">>), Some(<<"Bearer", " ">>),
                Some(<<"Bearer", "k">>), Some(<<"bearer", " ", "k">>),
                Some(<<"Basic", " ", "k">>), Some(<<"k">>) },
          api_key \in {Unset, Some(<<"k">>)} :
          /\ call' = [fn |-> "require_auth", authorization |-> authorization,
                      api_key |-> api_key]
          /\ out' = RequireAuth(authorization, api_key)
    /\ UnitFrame

\* ------------------------------------------------------------ call sites
StreamBranches == {"pcm", "sse_pcm"}

\* ModelManager.resolve_voice line 247 on the adapter get_engine returned,
\* answered by audio_speech lines 240-244 (a RuntimeError is a 400); when the
\* voice resolves, the second get_engine call of line 257 starts
ResolveVoice(r, t) ==
    \E v \in {"none", "v1", "bad"} :
        IF AdapterResolves(t.adapter[1], v)
        THEN /\ site' = [site EXCEPT ![r] = "ge"]
             /\ ret' = [ret EXCEPT ![r] = NoRet]
             /\ Goto(r, "ge_k")
             /\ UNCHANGED <<status, result, branch, fmt>>
        ELSE /\ status' = [status EXCEPT ![r] = 400]
             /\ result' = [result EXCEPT ![r] = "error"]
             /\ ret' = [ret EXCEPT ![r] = t]
             /\ Goto(r, "done")
             /\ UNCHANGED <<site, branch, fmt>>

\* audio_speech lines 257-266, 299, 300: the engine is kept and the
\* (stream_format, response_format) branch is taken
BranchOf(sf, f) ==
    IF sf = "audio" THEN (IF f # "pcm" THEN "full" ELSE "pcm")
    ELSE (IF f = "pcm" THEN "sse_pcm" ELSE "sse_full")
\* (which of the container formats was asked for matters to
\* build_full_response only, and is drawn where it is called)
ChooseBranch(r, t) ==
    \E sf \in StreamFormats, f \in {"pcm", "container"} :
        /\ branch' = [branch EXCEPT ![r] = BranchOf(sf, f)]
        /\ fmt' = [fmt EXCEPT ![r] = [stream_format |-> sf, response_format |-> f]]
        /\ ret' = [ret EXCEPT ![r] = t]
        /\ Goto(r, IF BranchOf(sf, f) \in StreamBranches THEN "st_lock" ELSE "fb_lock")
        /\ UNCHANGED <<site, status, result>>

\* get_engine was called by a client of the manager itself, and returns
CallReturn(r, t) ==
    /\ ret' = [ret EXCEPT ![r] = t]
    /\ result' = [result EXCEPT ![r] = "returned"]
    /\ Goto(r, "done")
    /\ UNCHANGED <<site, status, branch, fmt>>

\* get_engine returns the triple t to the call that made it
Return(r, t) ==
    IF site[r] = "rv" THEN ResolveVoice(r, t)
    ELSE IF site[r] = "ge" THEN ChooseBranch(r, t)
    ELSE CallReturn(r, t)

\* ------------------------------------------------------------ get_engine
\* a fast path taken whatever model is active
GeReadKeyAny(r) ==
    /\ pc[r] = "ge_k"
    /\ Goto(r, "ge_e")
    /\ UNCHANGED <<mgrVars, infer_lock, idx, key, site, ret, pipeVars>>
    /\ UNCHANGED <<bodyVars, startVars, unitVars>>

\* fast path, line 212: self.active_key == model_key
GeReadKey(r) ==
    /\ pc[r] = "ge_k"
    /\ Goto(r, IF active_key = key[r] THEN "ge_e" ELSE "ge_slow")
    /\ UNCHANGED <<mgrVars, infer_lock, idx, key, site, ret, pipeVars>>
    /\ UNCHANGED <<bodyVars, startVars, unitVars>>

\* fast path, lines 213-215: the three truth tests, one field read each
GeTestFields(r) ==
    /\ \/ /\ pc[r] = "ge_e"
          /\ Goto(r, IF Truthy(active_engine) THEN "ge_s" ELSE "ge_slow")
       \/ /\ pc[r] = "ge_s"
          /\ Goto(r, IF active_spec # None THEN "ge_a" ELSE "ge_slow")
       \/ /\ pc[r] = "ge_a"
          /\ Goto(r, IF Truthy(active_adapter) THEN "ge_re" ELSE "ge_slow")
    /\ UNCHANGED <<mgrVars, infer_lock, idx, key, site, ret, pipeVars>>
    /\ UNCHANGED <<bodyVars, startVars, unitVars>>

\* fast path, line 217: the returned tuple is built from three more reads
GeFastReturn(r) ==
    /\ \/ /\ pc[r] = "ge_re"
          /\ ret' = [ret EXCEPT ![r].engine = active_engine]
          /\ Goto(r, "ge_rs")
          /\ UNCHANGED <<site, pipeVars, fmt>>
       \/ /\ pc[r] = "ge_rs"
          /\ ret' = [ret EXCEPT ![r].spec = active_spec]
          /\ Goto(r, "ge_ra")
          /\ UNCHANGED <<site, pipeVars, fmt>>
       \/ /\ pc[r] = "ge_ra"
          /\ Return(r, [ret[r] EXCEPT !.adapter = active_adapter])
          /\ UNCHANGED <<produced, held, backend, events>>
    /\ UNCHANGED <<mgrVars, infer_lock, idx, key>>
    /\ UNCHANGED <<body, samples, response, startVars, unitVars>>

\* the error of a failed call, as its caller answers it: a client of the
\* manager just sees the exception; in audio_speech resolve_voice's call is
\* guarded by "except RuntimeError" (lines 240-244), the direct call by
\* "except Exception" (lines 256-261)
ErrorStatus(s, kind) ==
    IF s = "call" THEN 0
    ELSE IF s = "rv" /\ kind # "RuntimeError" THEN 500 ELSE 400

\* an unknown key that empties the active slot before it fails
GeLookupClear(r) ==
    /\ pc[r] = "ge_slow"
    /\ IF key[r] \in Models
       THEN Goto(r, "ge_lock") /\ UNCHANGED <<status, result, activeVars>>
       ELSE /\ Goto(r, "done")
            /\ status' = [status EXCEPT ![r] = ErrorStatus(site[r], "RuntimeError")]
            /\ result' = [result EXCEPT ![r] = "error"]
            /\ active_key' = None /\ active_spec' = None
            /\ active_engine' = NoEngine /\ active_adapter' = NoEngine
    /\ UNCHANGED <<engines_by_id, loads, infer_lock, idx, key, site, ret, branch, produced,
                   held, backend, events>>
    /\ UNCHANGED <<bodyVars, startVars, unitVars>>

\* lines 218-220: the catalog lookup; an unknown key raises RuntimeError
GeLookup(r) ==
    /\ pc[r] = "ge_slow"
    /\ IF key[r] \in Models
       THEN Goto(r, "ge_lock") /\ UNCHANGED <<status, result>>
       ELSE /\ Goto(r, "done")
            /\ status' = [status EXCEPT ![r] = ErrorStatus(site[r], "RuntimeError")]
            /\ result' = [result EXCEPT ![r] = "error"]
    /\ UNCHANGED <<mgrVars, infer_lock, idx, key, site, ret, branch, produced, held,
                   backend, events>>
    /\ UNCHANGED <<bodyVars, startVars, unitVars>>

\* get_engine's slow path entered without taking the lock
GeAcquireNoLock(r) ==
    /\ pc[r] = "ge_lock"
    /\ Goto(r, "ge_chk")
    /\ UNCHANGED <<mgrVars, infer_lock, idx, key, site, ret, pipeVars>>
    /\ UNCHANGED <<bodyVars, startVars, unitVars>>

\* line 221: with self.infer_lock
GeAcquire(r) ==
    /\ pc[r] = "ge_lock"
    /\ Acquire(r)
    /\ Goto(r, "ge_chk")
    /\ UNCHANGED <<mgrVars, idx, key, site, ret, pipeVars>>
    /\ UNCHANGED <<bodyVars, startVars, unitVars>>

\* lines 222-229: the re-check, then _get_cached_engine's lookup
GeRecheck(r) ==
    /\ pc[r] = "ge_chk"
    /\ IF IsActive(key[r])
       THEN /\ Release(r)
            /\ Return(r, [engine |-> active_engine, spec |-> active_spec,
                          adapter |-> active_adapter])
            /\ UNCHANGED <<produced, held, backend, events>>
       ELSE IF Truthy(engines_by_id[key[r]])
       THEN /\ ret' = [ret EXCEPT ![r] = [engine |-> engines_by_id[key[r]],
                                          spec |-> key[r],
                                          adapter |-> engines_by_id[key[r]]]]
            /\ Goto(r, "ge_w1")
            /\ UNCHANGED <<infer_lock, site, pipeVars, fmt>>
       ELSE /\ Goto(r, "ge_load")
            /\ UNCHANGED <<ret, infer_lock, site, pipeVars, fmt>>
    /\ UNCHANGED <<mgrVars, idx, key>>
    /\ UNCHANGED <<body, samples, response, startVars, unitVars>>

\* lines 193-195: the load succeeds and the pair is cached
GeLoadOK(r) ==
    /\ pc[r] = "ge_load"
    /\ StoreLoaded(key[r])
    /\ ret' = [ret EXCEPT ![r] = [engine |-> NewEngine(key[r]), spec |-> key[r],
                                   adapter |-> NewEngine(key[r])]]
    /\ Goto(r, "ge_w1")
    /\ UNCHANGED <<activeVars, infer_lock, idx, key, site, pipeVars>>
    /\ UNCHANGED <<bodyVars, startVars, unitVars>>

\* a get_engine that has cached a pair before its load failed
GeLoadFailCached(r) ==
    /\ pc[r] = "ge_load"
    /\ Release(r)
    /\ \E kind \in {"RuntimeError", "OSError"} :
          status' = [status EXCEPT ![r] = ErrorStatus(site[r], kind)]
    /\ result' = [result EXCEPT ![r] = "error"]
    /\ engines_by_id' = [engines_by_id EXCEPT ![key[r]] = NewEngine(key[r])]
    /\ Goto(r, "done")
    /\ UNCHANGED <<loads, activeVars, idx, key, site, ret, branch, produced, held,
                   backend, events>>
    /\ UNCHANGED <<bodyVars, startVars, unitVars>>

\* a get_engine that has named the model active before its load failed
GeLoadFailNamed(r) ==
    /\ pc[r] = "ge_load"
    /\ Release(r)
    /\ \E kind \in {"RuntimeError", "OSError"} :
          status' = [status EXCEPT ![r] = ErrorStatus(site[r], kind)]
    /\ result' = [result EXCEPT ![r] = "error"]
    /\ Goto(r, "done")
    /\ active_key' = key[r]
    /\ UNCHANGED <<engines_by_id, loads, active_spec, active_engine, active_adapter, idx, key, site, ret, branch, produced, held, backend, events>>
    /\ UNCHANGED <<bodyVars, startVars, unitVars>>

\* line 193: _load_engine raises; the with block releases the lock
GeLoadFail(r) ==
    /\ pc[r] = "ge_load"
    /\ Release(r)
    /\ \E kind \in {"RuntimeError", "OSError"} :
          status' = [status EXCEPT ![r] = ErrorStatus(site[r], kind)]
    /\ result' = [result EXCEPT ![r] = "error"]
    /\ Goto(r, "done")
    /\ UNCHANGED <<mgrVars, idx, key, site, ret, branch, produced, held, backend, events>>
    /\ UNCHANGED <<bodyVars, startVars, unitVars>>

\* lines 230-233: the four assignments of the switch
GeWriteActive(r) ==
    /\ \/ /\ pc[r] = "ge_w1"
          /\ active_key' = ret[r].spec
          /\ UNCHANGED <<active_spec, active_engine, active_adapter>>
          /\ Goto(r, "ge_w2")
       \/ /\ pc[r] = "ge_w2"
          /\ active_spec' = ret[r].spec
          /\ UNCHANGED <<active_key, active_engine, active_adapter>>
          /\ Goto(r, "ge_w3")
       \/ /\ pc[r] = "ge_w3"
          /\ active_engine' = ret[r].engine
          /\ UNCHANGED <<active_key, active_spec, active_adapter>>
          /\ Goto(r, "ge_w4")
       \/ /\ pc[r] = "ge_w4"
          /\ active_adapter' = ret[r].adapter
          /\ UNCHANGED <<active_key, active_spec, active_engine>>
          /\ Goto(r, "ge_unlock")
    /\ UNCHANGED <<engines_by_id, loads, infer_lock, idx, key, site, ret, pipeVars>>
    /\ UNCHANGED <<bodyVars, startVars, unitVars>>

\* the with block ends; line 234 returns the locals
GeRelease(r) ==
    /\ pc[r] = "ge_unlock"
    /\ Release(r)
    /\ Return(r, ret[r])
    /\ UNCHANGED <<mgrVars, idx, key, produced, held, backend, events>>
    /\ UNCHANGED <<body, samples, response, startVars, unitVars>>

\* ------------------------------------------------------------ audio_speech
\* schemas.AudioSpeechRequest: input has min_length 1; a body that fails the
\* validation never reaches the handler
SchemaValid(b) == Len(b.input) >= 1
\* line 229: body.model or registry.default_model
ModelKey(m) == IF m = None THEN DefaultModel ELSE m
\* the checks of the input applied before the check of the model
RejectionInputFirst(b) ==
    LET auth == RequireAuth(b.authorization, Some(<<"k">>)) IN
    IF ~SchemaValid(b) THEN [status |-> 422, detail |-> "validation"]
    ELSE IF ~auth.ok
    THEN [status |-> IF auth.error = "TypeError" THEN 500 ELSE 401,
          detail |-> auth.error]
    ELSE IF NormalizeText(b.input) = <<>>
    THEN [status |-> 400, detail |-> "input must be non-empty"]
    ELSE IF Len(NormalizeText(b.input)) > MaxChars
    THEN [status |-> 400, detail |-> "input too long"]
    ELSE IF ModelKey(b.model) \notin Models
    THEN [status |-> 400, detail |-> "Invalid model"]
    ELSE [status |-> 0, detail |-> ""]

\* the refusal of a request before any work is done, status 0 when it is
\* accepted: 422 from the validation of the body, then _require_auth with
\* the configured cfg.api_key "k" (line 223), then lines 229-238
Rejection(b) ==
    LET auth == RequireAuth(b.authorization, Some(<<"k">>)) IN
    IF ~SchemaValid(b) THEN [status |-> 422, detail |-> "validation"]
    ELSE IF ~auth.ok
    THEN [status |-> IF auth.error = "TypeError" THEN 500 ELSE 401,
          detail |-> auth.error]
    ELSE IF ModelKey(b.model) \notin Models
    THEN [status |-> 400, detail |-> "Invalid model"]
    ELSE IF NormalizeText(b.input) = <<>>
    THEN [status |-> 400, detail |-> "input must be non-empty"]
    ELSE IF Len(NormalizeText(b.input)) > MaxChars
    THEN [status |-> 400, detail |-> "input too long"]
    ELSE [status |-> 0, detail |-> ""]
RequestStatus(b) == Rejection(b).status

\* a request arrives with an Authorization header and a body drawn from the
\* given headers, models and inputs; a refusal ends it with the detail of its
\* HTTPException, and when it is accepted resolve_voice calls get_engine first
ArriveWith(r, auths, models, inputs) ==
    /\ pc[r] = "idle"
    /\ pc[Boot] \in {"s_idle", "s_done"}
    /\ \E a \in auths, m \in models, inp \in inputs :
          LET b == [authorization |-> a, model |-> m, input |-> inp] IN
          /\ body' = [body EXCEPT ![r] = b]
          /\ key' = [key EXCEPT ![r] =
                       IF Rejection(b).status \in {422, 401, 500} THEN None
                       ELSE ModelKey(m)]
          /\ IF RequestStatus(b) = 0
             THEN /\ site' = [site EXCEPT ![r] = "rv"]
                  /\ Goto(r, "ge_k")
                  /\ UNCHANGED <<status, result>>
             ELSE /\ status' = [status EXCEPT ![r] = RequestStatus(b)]
                  /\ result' = [result EXCEPT ![r] = Rejection(b).detail]
                  /\ Goto(r, "done")
                  /\ UNCHANGED site
    /\ UNCHANGED <<mgrVars, infer_lock, idx, ret, branch, produced, held, backend, events>>
    /\ UNCHANGED <<fmt, samples, response, startVars, unitVars>>

\* a client of the manager calls get_engine itself, with any key
Call(r) ==
    /\ pc[r] = "idle"
    /\ pc[Boot] \in {"s_idle", "s_done"}
    /\ \E k \in Models \cup {"zz"} : key' = [key EXCEPT ![r] = k]
    /\ site' = [site EXCEPT ![r] = "call"]
    /\ Goto(r, "ge_k")
    /\ UNCHANGED <<mgrVars, infer_lock, idx, ret, pipeVars, bodyVars, startVars, unitVars>>

\* the bodies of the requests that run concurrently: the default model or
\* the other one, a text that is accepted
Arrive(r) ==
    ArriveWith(r, {Some(<<"Bearer", " ", "k">>)}, {"none", "m2"}, {<<" ", "a", " ">>})
\* Authorization: absent, the configured key, another one; body.model:
\* absent, a catalog id, an unknown id; body.input: empty, blank, one that
\* normalizes to "a", one that normalizes to "a a" and is longer than
\* cfg.max_chars
ArriveAny(r) ==
    ArriveWith(r, {Unset, Some(<<"Bearer", " ", "k">>), Some(<<"Bearer", " ", "x">>)},
               {"none", "m2", "zz"},
               {<<>>, <<" ">>, <<" ", "a", " ">>, <<"a", " ", " ", "a">>})

\* an exception reaches the handler: a 400 while nothing is committed; once the
\* response has started its status cannot change and the body just stops
FailWith(r, st) ==
    IF status[r] = 0
    THEN /\ status' = [status EXCEPT ![r] = st]
         /\ result' = [result EXCEPT ![r] = "error"]
    ELSE /\ UNCHANGED status
         /\ result' = [result EXCEPT ![r] = "midfail"]
Fail(r) == FailWith(r, 400)

\* the length of a sequence of numbers summed up
RECURSIVE SumSeq(_)
SumSeq(q) == IF q = <<>> THEN 0 ELSE Head(q) + SumSeq(Tail(q))

\* audio._wav_bytes: a 44-byte header, then two bytes per sample
\* audio.build_full_response and _ffmpeg_transcode: the media type of a format
MediaType(f) ==
    CASE f = "wav" -> "audio/wav"
      [] f = "pcm" -> "application/octet-stream"
      [] f = "mp3" -> "audio/mpeg"
      [] f = "opus" -> "audio/ogg"
      [] f = "aac" -> "audio/aac"
      [] f = "flac" -> "audio/flac"

\* str(n): the decimal text of an integer, kept apart from the integer
Str(n) == <<"str", n>>

\* a header set whose sample rate is read from the manager's active engine
HeadersOfActive(r, t) ==
    [h \in {"X-Model", "X-Voice", "X-Sample-Rate", "X-Latency-Ms"} |->
        CASE h = "X-Model" -> key[r]
          [] h = "X-Voice" -> "voice_label"
          [] h = "X-Sample-Rate" -> Str(SampleRate[active_engine[1]])
          [] h = "X-Latency-Ms" -> "elapsed"]
\* server.py lines 251-254, 262 and the X-Latency-Ms of each branch; the SSE
\* branches add Cache-Control
Headers(r, t) ==
    [h \in {"X-Model", "X-Voice", "X-Sample-Rate", "X-Latency-Ms"} |->
        CASE h = "X-Model" -> key[r]
          [] h = "X-Voice" -> "voice_label"
          [] h = "X-Sample-Rate" -> Str(SampleRate[t.engine[1]])
          [] h = "X-Latency-Ms" -> "elapsed"]
SseHeaders(hs) == [h \in DOMAIN hs \cup {"Cache-Control"} |->
                      IF h = "Cache-Control" THEN "no-cache" ELSE hs[h]]

\* ---- full buffer: lines 267-284 and 318-340
FbAcquire(r) ==
    /\ pc[r] = "fb_lock"
    /\ Acquire(r)
    /\ backend' = [backend EXCEPT ![r] = "running"]
    /\ Goto(r, "fb_synth")
    /\ UNCHANGED <<mgrVars, idx, key, site, ret, branch, produced, held, status, events,
                   result>>
    /\ UNCHANGED <<bodyVars, startVars, unitVars>>

\* a response started before the audio is encoded
FbSynthOKCommitted(r) ==
    /\ pc[r] = "fb_synth"
    /\ \E n \in 1..MaxChunks : \E sizes \in [1..n -> ServedSizes] :
          /\ produced' = [produced EXCEPT ![r] = n]
          /\ samples' = [samples EXCEPT ![r] = SumSeq(sizes)]
    /\ backend' = [backend EXCEPT ![r] = "exhausted"]
    /\ Release(r)
    /\ status' = [status EXCEPT ![r] = 200]
    /\ Goto(r, "fb_enc")
    /\ UNCHANGED <<mgrVars, idx, key, site, ret, branch, held, events, result>>
    /\ UNCHANGED <<body, fmt, response, startVars, unitVars>>

\* a synthesis whose lock is kept for the encoding
FbSynthOKHolding(r) ==
    /\ pc[r] = "fb_synth"
    /\ \E n \in 1..MaxChunks : \E sizes \in [1..n -> ServedSizes] :
          /\ produced' = [produced EXCEPT ![r] = n]
          /\ samples' = [samples EXCEPT ![r] = SumSeq(sizes)]
    /\ backend' = [backend EXCEPT ![r] = "exhausted"]
    /\ Goto(r, "fb_enc")
    /\ UNCHANGED <<mgrVars, infer_lock, idx, key, site, ret, branch, held, status,
                   events, result>>
    /\ UNCHANGED <<body, fmt, response, startVars, unitVars>>

\* synthesize_full drained the generator and got at least one chunk; the
\* chunks, each of a number of samples in S, are concatenated (base.py 184-187)
FbSynthOKWith(r, S) ==
    /\ pc[r] = "fb_synth"
    /\ \E n \in 1..MaxChunks : \E sizes \in [1..n -> S] :
          /\ produced' = [produced EXCEPT ![r] = n]
          /\ samples' = [samples EXCEPT ![r] = SumSeq(sizes)]
    /\ backend' = [backend EXCEPT ![r] = "exhausted"]
    /\ Release(r)
    /\ Goto(r, "fb_enc")
    /\ UNCHANGED <<mgrVars, idx, key, site, ret, branch, held, status, events, result>>
    /\ UNCHANGED <<body, fmt, response, startVars, unitVars>>

FbSynthOK(r) == FbSynthOKWith(r, ServedSizes)
FbSynthOKAny(r) == FbSynthOKWith(r, 0..MaxSamples)

\* synthesize_full raised: the backend failed, or it produced no chunk
FbSynthFail(r) ==
    /\ pc[r] = "fb_synth"
    /\ \E b \in {"exhausted", "failed"} : backend' = [backend EXCEPT ![r] = b]
    /\ Release(r)
    /\ Fail(r)
    /\ Goto(r, "done")
    /\ UNCHANGED <<mgrVars, idx, key, site, ret, branch, produced, held, events>>
    /\ UNCHANGED <<bodyVars, startVars, unitVars>>

\* build_full_response returned out_bytes for a format among F; the response
\* is committed: the buffer itself (line 284), or stream_sse over [out_bytes]
\* (lines 336-340)
FbEncodeOKWith(r, F) ==
    /\ pc[r] = "fb_enc"
    /\ status' = [status EXCEPT ![r] = 200]
    \* the lengths build_full_response can return: a wav header and two bytes
    \* a sample; the external encoder that exits with status 0 wrote nothing,
    \* or some bytes
    /\ \E f \in F : \E len \in (IF f = "wav" THEN {44 + 2 * samples[r]}
                               ELSE IF f = "pcm" THEN {2 * samples[r]} ELSE {0, 1}) :
          /\ fmt' = [fmt EXCEPT ![r].response_format = f]
          /\ IF branch[r] = "sse_full"
             THEN /\ held' = [held EXCEPT ![r] = IF len > 0 THEN "data" ELSE "empty"]
                  /\ response' = [response EXCEPT ![r] =
                                      [media_type |-> "text/event-stream",
                                       headers |-> SseHeaders(Headers(r, ret[r])),
                                       length |-> -1]]
                  /\ Goto(r, "sf_chunk")
                  /\ UNCHANGED result
             ELSE /\ result' = [result EXCEPT ![r] = "complete"]
                  /\ response' = [response EXCEPT ![r] =
                                      [media_type |-> MediaType(f),
                                       headers |-> Headers(r, ret[r]),
                                       length |-> len]]
                  /\ Goto(r, "done")
                  /\ UNCHANGED held
    /\ UNCHANGED <<mgrVars, infer_lock, idx, key, site, ret, branch, produced, backend,
                   events>>
    /\ UNCHANGED <<body, samples, startVars, unitVars>>

FbEncodeOK(r) == FbEncodeOKWith(r, ServedFormats)
FbEncodeOKAny(r) == FbEncodeOKWith(r, ContainerFormats)

\* _ffmpeg_transcode raised: RuntimeError when the encoder is not found, exits
\* with a non-zero status or times out (lines 62-65, 134-139); the OSError of
\* subprocess.run when the program cannot be started
FbEncodeFailWith(r, F) ==
    /\ pc[r] = "fb_enc"
    /\ \E f \in F \cap {"mp3", "opus", "aac", "flac"} :
          fmt' = [fmt EXCEPT ![r].response_format = f]
    \* lines 281-282 and 332-333 catch RuntimeError only
    /\ \E kind \in {"RuntimeError", "OSError"} :
          FailWith(r, IF kind = "RuntimeError" THEN 400 ELSE 500)
    /\ Goto(r, "done")
    /\ UNCHANGED <<mgrVars, infer_lock, idx, key, site, ret, branch, produced, held,
                   backend, events>>
    /\ UNCHANGED <<body, samples, response, startVars, unitVars>>

FbEncodeFail(r) == FbEncodeFailWith(r, ServedFormats)
FbEncodeFailAny(r) == FbEncodeFailWith(r, ContainerFormats)

\* ---- stream_sse
\* a delta event for every chunk, the empty ones too
SseDeltaEvery(ev, c) == Append(ev, [type |-> "speech.audio.delta", audio |-> c])
\* lines 203-206: one delta event per non-empty chunk
SseDelta(ev, c) ==
    IF c = "data" THEN Append(ev, [type |-> "speech.audio.delta", audio |-> c]) ELSE ev
\* lines 207-212: the done event, after the source is exhausted
ZeroUsage == [input_tokens |-> 0, output_tokens |-> 0, total_tokens |-> 0]
\* a done event written only after at least one delta
SseDoneAfterDelta(ev) ==
    IF ev = <<>> THEN ev ELSE Append(ev, [type |-> "speech.audio.done", usage |-> ZeroUsage])
SseDone(ev) == Append(ev, [type |-> "speech.audio.done", usage |-> ZeroUsage])

\* ---- audio.stream_sse on its own: audio.py lines 198-212
\* base64.b64encode of a sequence of bytes: every three bytes give four
\* characters of the alphabet, written by their index 0..63; 64 is "="
RECURSIVE B64Encode(_)
B64Encode(b) ==
    IF b = <<>> THEN <<>>
    ELSE IF Len(b) = 1
    THEN <<b[1] \div 4, (b[1] % 4) * 16, 64, 64>>
    ELSE IF Len(b) = 2
    THEN LET n == b[1] * 256 + b[2] IN
         <<n \div 1024, (n \div 16) % 64, (n % 16) * 4, 64>>
    ELSE LET n == b[1] * 65536 + b[2] * 256 + b[3] IN
         <<n \div 262144, (n \div 4096) % 64, (n \div 64) % 64, n % 64>>
             \o B64Encode(SubSeq(b, 4, Len(b)))
\* a stream_sse that writes an event for the empty chunks too
StreamSseEvery(chunks, ev) ==
    SseDone(ev \o [i \in DOMAIN chunks |->
                      [type |-> "speech.audio.delta", audio |-> B64Encode(chunks[i])]])
\* the events written for the chunks, after the events ev: the loop passes
\* over the empty chunks (lines 202-204)
StreamSse(chunks, ev) ==
    LET sent == SelectSeq(chunks, LAMBDA chunk : chunk # <<>>) IN
    SseDone(ev \o [i \in DOMAIN sent |->
                      [type |-> "speech.audio.delta", audio |-> B64Encode(sent[i])]])

StreamSseCall ==
    /\ call = NoCall
    /\ \E chunks \in SeqsUpTo({<<>>, <<0>>, <<255>>, <<77, 97>>, <<77, 97, 110>>,
                                <<255, 0, 16, 131>>}, MaxResults) :
          /\ call' = [fn |-> "stream_sse", chunks |-> chunks]
          /\ out' = Returns(Some(StreamSse(chunks, <<>>)))
    /\ UnitFrame

\* stream_sse over [out_bytes]: the only chunk
SseFullChunk(r) ==
    /\ pc[r] = "sf_chunk"
    /\ events' = [events EXCEPT ![r] = SseDelta(@, held[r])]
    /\ held' = [held EXCEPT ![r] = None]
    /\ Goto(r, "sf_done")
    /\ UNCHANGED <<mgrVars, infer_lock, idx, key, site, ret, branch, produced, backend,
                   status, result>>
    /\ UNCHANGED <<bodyVars, startVars, unitVars>>

SseFullDone(r) ==
    /\ pc[r] = "sf_done"
    /\ events' = [events EXCEPT ![r] = SseDone(@)]
    /\ result' = [result EXCEPT ![r] = "complete"]
    /\ Goto(r, "done")
    /\ UNCHANGED <<mgrVars, infer_lock, idx, key, site, ret, branch, produced, held,
                   backend, status>>
    /\ UNCHANGED <<bodyVars, startVars, unitVars>>

\* ---- stream_pcm_audio: audio.py lines 164-195, called at server.py 288 and 302
\* inner() without its with block
StAcquireNoLock(r) ==
    /\ pc[r] = "st_lock"
    /\ backend' = [backend EXCEPT ![r] = "running"]
    /\ Goto(r, "st_pull")
    /\ UNCHANGED <<mgrVars, infer_lock, idx, key, site, ret, branch, produced, held, status,
                   events, result>>
    /\ UNCHANGED <<bodyVars, startVars, unitVars>>

\* the generator handed to the response without taking its first chunk
StAcquireCommitted(r) ==
    /\ pc[r] = "st_lock"
    /\ Acquire(r)
    /\ backend' = [backend EXCEPT ![r] = "running"]
    /\ status' = [status EXCEPT ![r] = 200]
    /\ Goto(r, "st_pull")
    /\ UNCHANGED <<mgrVars, idx, key, site, ret, branch, produced, held, events, result>>
    /\ UNCHANGED <<bodyVars, startVars, unitVars>>

\* next(gen) starts inner(): with infer_lock, then iter(engine.iter_chunks(...))
StAcquire(r) ==
    /\ pc[r] = "st_lock"
    /\ Acquire(r)
    /\ backend' = [backend EXCEPT ![r] = "running"]
    /\ Goto(r, "st_pull")
    /\ UNCHANGED <<mgrVars, idx, key, site, ret, branch, produced, held, status, events,
                   result>>
    /\ UNCHANGED <<bodyVars, startVars, unitVars>>

\* a with block that covers only the first chunk
StPullChunkRelease(r) ==
    /\ pc[r] = "st_pull"
    /\ produced[r] < MaxChunks
    /\ \E c \in {"data", "empty"} : held' = [held EXCEPT ![r] = c]
    /\ produced' = [produced EXCEPT ![r] = @ + 1]
    /\ infer_lock' = IF produced[r] = 0 THEN Free ELSE infer_lock
    /\ Goto(r, IF produced[r] = 0 THEN "st_first" ELSE "st_emit")
    /\ UNCHANGED <<mgrVars, idx, key, site, ret, branch, backend, status, events, result>>
    /\ UNCHANGED <<bodyVars, startVars, unitVars>>

\* the backend yields a chunk (possibly of zero samples); inner() yields its bytes.
\* The first one is handed to stream_pcm_audio (line 186), a later one to the
\* consumer of outer().
StPullChunk(r) ==
    /\ pc[r] = "st_pull"
    /\ produced[r] < MaxChunks
    /\ \E c \in {"data", "empty"} : held' = [held EXCEPT ![r] = c]
    /\ produced' = [produced EXCEPT ![r] = @ + 1]
    /\ Goto(r, IF produced[r] = 0 THEN "st_first" ELSE "st_emit")
    /\ UNCHANGED <<mgrVars, infer_lock, idx, key, site, ret, branch, backend, status,
                   events, result>>
    /\ UNCHANGED <<bodyVars, startVars, unitVars>>

\* the backend's sequence ends.  Before the first chunk inner() raises
\* RuntimeError (lines 179-180); later the generator returns and stream_sse,
\* when it wraps the stream, writes its done event.  The with block releases.
StPullEnd(r) ==
    /\ pc[r] = "st_pull"
    /\ backend' = [backend EXCEPT ![r] = "exhausted"]
    /\ Release(r)
    /\ IF produced[r] = 0
       THEN Fail(r) /\ UNCHANGED events
       ELSE /\ result' = [result EXCEPT ![r] = "complete"]
            /\ events' = [events EXCEPT ![r] =
                              IF branch[r] = "sse_pcm" THEN SseDone(@) ELSE @]
            /\ UNCHANGED status
    /\ Goto(r, "done")
    /\ UNCHANGED <<mgrVars, idx, key, site, ret, branch, produced, held>>
    /\ UNCHANGED <<bodyVars, startVars, unitVars>>

\* an exception that leaves the generator with the lock still taken
StPullFailHolding(r) ==
    /\ pc[r] = "st_pull"
    /\ backend' = [backend EXCEPT ![r] = "failed"]
    /\ Fail(r)
    /\ Goto(r, "done")
    /\ UNCHANGED <<mgrVars, infer_lock, idx, key, site, ret, branch, produced, held,
                   events>>
    /\ UNCHANGED <<bodyVars, startVars, unitVars>>

\* the backend raises while a chunk is pulled; the with block releases and the
\* exception leaves the generator
StPullFail(r) ==
    /\ pc[r] = "st_pull"
    /\ backend' = [backend EXCEPT ![r] = "failed"]
    /\ Release(r)
    /\ Fail(r)
    /\ Goto(r, "done")
    /\ UNCHANGED <<mgrVars, idx, key, site, ret, branch, produced, held, events>>
    /\ UNCHANGED <<bodyVars, startVars, unitVars>>

\* stream_pcm_audio returned (outer(), latency); audio_speech returns the
\* StreamingResponse: status and headers are committed (lines 295-296, 309-315)
StCommit(r) ==
    /\ pc[r] = "st_first"
    /\ status' = [status EXCEPT ![r] = 200]
    /\ response' = [response EXCEPT ![r] =
                        IF branch[r] = "sse_pcm"
                        THEN [media_type |-> "text/event-stream",
                              headers |-> SseHeaders(Headers(r, ret[r])), length |-> -1]
                        ELSE [media_type |-> "application/octet-stream",
                              headers |-> Headers(r, ret[r]), length |-> -1]]
    /\ Goto(r, "st_emit")
    /\ UNCHANGED <<mgrVars, infer_lock, idx, key, site, ret, branch, produced, held,
                   backend, events, result>>
    /\ UNCHANGED <<body, fmt, samples, startVars, unitVars>>

\* a lock given back as soon as the consumer has a chunk
StEmitRelease(r) ==
    /\ pc[r] = "st_emit"
    /\ events' = [events EXCEPT ![r] =
                      IF branch[r] = "sse_pcm" THEN SseDelta(@, held[r]) ELSE @]
    /\ held' = [held EXCEPT ![r] = None]
    /\ Release(r)
    /\ Goto(r, "st_pull")
    /\ UNCHANGED <<mgrVars, idx, key, site, ret, branch, produced, backend, status, result>>
    /\ UNCHANGED <<bodyVars, startVars, unitVars>>

\* the consumer takes the chunk in hand (through stream_sse on the SSE branch)
\* and asks for the next one: inner() resumes in its for loop
StEmit(r) ==
    /\ pc[r] = "st_emit"
    /\ events' = [events EXCEPT ![r] =
                      IF branch[r] = "sse_pcm" THEN SseDelta(@, held[r]) ELSE @]
    /\ held' = [held EXCEPT ![r] = None]
    /\ Goto(r, "st_pull")
    /\ UNCHANGED <<mgrVars, infer_lock, idx, key, site, ret, branch, produced, backend,
                   status, result>>
    /\ UNCHANGED <<bodyVars, startVars, unitVars>>

\* the client goes away while the generator is suspended at a yield: nothing
\* pulls it again, and closing the abandoned generator leaves the with block
StDisconnect(r) ==
    /\ pc[r] = "st_emit"
    /\ backend' = [backend EXCEPT ![r] = "closed"]
    /\ Release(r)
    /\ held' = [held EXCEPT ![r] = None]
    /\ result' = [result EXCEPT ![r] = "closed"]
    /\ Goto(r, "done")
    /\ UNCHANGED <<mgrVars, idx, key, site, ret, branch, produced, status, events>>
    /\ UNCHANGED <<bodyVars, startVars, unitVars>>

\* the client of a full-buffer SSE response goes away before its end
SseFullDisconnect(r) ==
    /\ pc[r] \in {"sf_chunk", "sf_done"}
    /\ held' = [held EXCEPT ![r] = None]
    /\ result' = [result EXCEPT ![r] = "closed"]
    /\ Goto(r, "done")
    /\ UNCHANGED <<mgrVars, infer_lock, idx, key, site, ret, branch, produced, backend,
                   status, events>>
    /\ UNCHANGED <<bodyVars, startVars, unitVars>>

\* the request is over; the thread serves the next one
Finish(r) ==
    /\ pc[r] = "done"
    /\ Goto(r, "idle")
    /\ key' = [key EXCEPT ![r] = None]
    /\ site' = [site EXCEPT ![r] = None]
    /\ ret' = [ret EXCEPT ![r] = NoRet]
    /\ branch' = [branch EXCEPT ![r] = None]
    /\ produced' = [produced EXCEPT ![r] = 0]
    /\ held' = [held EXCEPT ![r] = None]
    /\ backend' = [backend EXCEPT ![r] = "idle"]
    /\ status' = [status EXCEPT ![r] = 0]
    /\ events' = [events EXCEPT ![r] = <<>>]
    /\ result' = [result EXCEPT ![r] = None]
    /\ body' = [body EXCEPT ![r] = NoBody]
    /\ fmt' = [fmt EXCEPT ![r] = NoFormat]
    /\ samples' = [samples EXCEPT ![r] = 0]
    /\ response' = [response EXCEPT ![r] = NoResponse]
    /\ UNCHANGED <<mgrVars, infer_lock, idx, startVars, unitVars>>

\* ------------------------------------------------------------ startup
\* lifespan, server.py line 114: with app.state.infer_lock
BootAcquire ==
    /\ pc[Boot] = "s_idle"
    /\ \A r \in Requests : pc[r] = "idle"
    /\ Acquire(Boot)
    /\ idx' = 1
    /\ Goto(Boot, "s_loadall")
    /\ UNCHANGED <<mgrVars, key, site, ret, pipeVars>>
    /\ UNCHANGED <<bodyVars, startVars, unitVars>>

\* load_all, lines 157-159: an id already cached is skipped
LoadAllSkip ==
    /\ pc[Boot] = "s_loadall"
    /\ idx <= Len(ModelsSeq)
    /\ Truthy(engines_by_id[ModelsSeq[idx]])
    /\ idx' = idx + 1
    /\ UNCHANGED <<mgrVars, infer_lock, pc, key, site, ret, pipeVars>>
    /\ UNCHANGED <<bodyVars, startVars, unitVars>>

\* load_all, lines 162 and 165
LoadAllLoadOK ==
    /\ pc[Boot] = "s_loadall"
    /\ idx <= Len(ModelsSeq)
    /\ ~Truthy(engines_by_id[ModelsSeq[idx]])
    /\ StoreLoaded(ModelsSeq[idx])
    /\ idx' = idx + 1
    /\ UNCHANGED <<activeVars, infer_lock, pc, key, site, ret, pipeVars>>
    /\ UNCHANGED <<bodyVars, startVars, unitVars>>

\* a startup failure: the exception leaves the with block of lifespan
BootFail ==
    /\ Release(Boot)
    /\ Goto(Boot, "s_failed")

\* a preload failure reported under the name of the default model
LoadAllLoadFailDefault ==
    /\ pc[Boot] = "s_loadall"
    /\ idx <= Len(ModelsSeq)
    /\ ~Truthy(engines_by_id[ModelsSeq[idx]])
    /\ BootFail
    /\ boot_error' = <<"Failed to preload model", DefaultModel>>
    /\ UNCHANGED <<mgrVars, idx, key, site, ret, pipeVars>>
    /\ UNCHANGED <<bodyVars, payload, registry, unitVars>>

\* load_all, lines 163-164: the load raises, startup aborts
LoadAllLoadFail ==
    /\ pc[Boot] = "s_loadall"
    /\ idx <= Len(ModelsSeq)
    /\ ~Truthy(engines_by_id[ModelsSeq[idx]])
    /\ BootFail
    /\ boot_error' = <<"Failed to preload model", ModelsSeq[idx]>>
    /\ UNCHANGED <<mgrVars, idx, key, site, ret, pipeVars>>
    /\ UNCHANGED <<bodyVars, payload, registry, unitVars>>

\* a load_default that loads the default model whatever the cache holds
LoadDefaultGetReload ==
    /\ pc[Boot] = "s_loadall"
    /\ idx > Len(ModelsSeq)
    /\ StoreLoaded(DefaultModel)
    /\ ret' = [ret EXCEPT ![Boot] = [engine |-> NewEngine(DefaultModel),
                                     spec |-> DefaultModel,
                                     adapter |-> NewEngine(DefaultModel)]]
    /\ Goto(Boot, "s_w1")
    /\ UNCHANGED <<activeVars, infer_lock, idx, key, site, pipeVars>>
    /\ UNCHANGED <<bodyVars, startVars, unitVars>>

\* load_default, lines 137-138: _get_cached_engine of the default model
LoadDefaultGet ==
    /\ pc[Boot] = "s_loadall"
    /\ idx > Len(ModelsSeq)
    /\ IF Truthy(engines_by_id[DefaultModel])
       THEN /\ ret' = [ret EXCEPT ![Boot] = [engine |-> engines_by_id[DefaultModel],
                                             spec |-> DefaultModel,
                                             adapter |-> engines_by_id[DefaultModel]]]
            /\ UNCHANGED <<engines_by_id, loads>>
       ELSE /\ StoreLoaded(DefaultModel)
            /\ ret' = [ret EXCEPT ![Boot] = [engine |-> NewEngine(DefaultModel),
                                             spec |-> DefaultModel,
                                             adapter |-> NewEngine(DefaultModel)]]
    /\ Goto(Boot, "s_w1")
    /\ UNCHANGED <<activeVars, infer_lock, idx, key, site, pipeVars>>
    /\ UNCHANGED <<bodyVars, startVars, unitVars>>

\* load_default, lines 139-142: the four assignments
LoadDefaultWrite ==
    /\ \/ /\ pc[Boot] = "s_w1"
          /\ active_key' = ret[Boot].spec
          /\ UNCHANGED <<active_spec, active_engine, active_adapter>>
          /\ Goto(Boot, "s_w2")
       \/ /\ pc[Boot] = "s_w2"
          /\ active_spec' = ret[Boot].spec
          /\ UNCHANGED <<active_key, active_engine, active_adapter>>
          /\ Goto(Boot, "s_w3")
       \/ /\ pc[Boot] = "s_w3"
          /\ active_engine' = ret[Boot].engine
          /\ UNCHANGED <<active_key, active_spec, active_adapter>>
          /\ Goto(Boot, "s_w4")
       \/ /\ pc[Boot] = "s_w4"
          /\ active_adapter' = ret[Boot].adapter
          /\ UNCHANGED <<active_key, active_spec, active_engine>>
          /\ Goto(Boot, "s_voice")
    /\ UNCHANGED <<engines_by_id, loads, infer_lock, idx, key, site, ret, pipeVars>>
    /\ UNCHANGED <<bodyVars, startVars, unitVars>>

\* load_default, lines 143-147: the default voice is resolved and the warmup
\* is decided (the configured warmup text is not empty)
LoadDefaultVoice ==
    /\ pc[Boot] = "s_voice"
    /\ IF SpecDefaultVoice[DefaultModel] # None
          /\ ~AdapterResolves(ret[Boot].adapter[1], SpecDefaultVoice[DefaultModel])
       THEN BootFail /\ boot_error' = <<"resolve_voice", DefaultModel>>
       ELSE /\ UNCHANGED <<infer_lock, boot_error>>
            /\ Goto(Boot, IF SpecDefaultVoice[DefaultModel] # None
                              \/ ModelType[DefaultModel] # "kokoro"
                           THEN "s_warm" ELSE "s_unlock")
    /\ UNCHANGED <<mgrVars, idx, key, site, ret, pipeVars>>
    /\ UNCHANGED <<bodyVars, payload, registry, unitVars>>

\* load_default, line 148: the warmup synthesis returns
WarmupOK ==
    /\ pc[Boot] = "s_warm"
    /\ Goto(Boot, "s_unlock")
    /\ UNCHANGED <<mgrVars, infer_lock, idx, key, site, ret, pipeVars>>
    /\ UNCHANGED <<bodyVars, startVars, unitVars>>

\* load_default, line 148: the warmup synthesis raises, startup aborts
WarmupFail ==
    /\ pc[Boot] = "s_warm"
    /\ BootFail
    /\ boot_error' = <<"synthesize_full", DefaultModel>>
    /\ UNCHANGED <<mgrVars, idx, key, site, ret, pipeVars>>
    /\ UNCHANGED <<bodyVars, payload, registry, unitVars>>

\* lifespan: the with block ends, the server starts serving (line 127)
BootRelease ==
    /\ pc[Boot] = "s_unlock"
    /\ Release(Boot)
    /\ Goto(Boot, "s_done")
    /\ UNCHANGED <<mgrVars, idx, key, site, ret, pipeVars>>
    /\ UNCHANGED <<bodyVars, startVars, unitVars>>

\* ------------------------------------------------------------ specification
BootNext ==
    \/ BootAcquire \/ LoadAllSkip \/ LoadAllLoadOK \/ LoadAllLoadFail
    \/ LoadDefaultGet \/ LoadDefaultWrite \/ LoadDefaultVoice
    \/ WarmupOK \/ WarmupFail \/ BootRelease

RequestNext(r) ==
    \/ Arrive(r) \/ GeReadKey(r) \/ GeTestFields(r) \/ GeFastReturn(r)
    \/ GeLookup(r) \/ GeAcquire(r) \/ GeRecheck(r) \/ GeLoadOK(r) \/ GeLoadFail(r)
    \/ GeWriteActive(r) \/ GeRelease(r)
    \/ FbAcquire(r) \/ FbSynthOK(r) \/ FbSynthFail(r)
    \/ FbEncodeOK(r) \/ FbEncodeFail(r) \/ SseFullChunk(r) \/ SseFullDone(r)
    \/ StAcquire(r) \/ StPullChunk(r) \/ StPullEnd(r) \/ StPullFail(r)
    \/ StCommit(r) \/ StEmit(r) \/ StDisconnect(r) \/ SseFullDisconnect(r)
    \/ Finish(r)

Next == BootNext \/ \E r \in Requests : RequestNext(r)

Spec == Init /\ [][Next]_vars

\* one request at a time, with every body, format and chunk size
SoloNext(r) ==
    \/ ArriveAny(r) \/ GeReadKey(r) \/ GeTestFields(r) \/ GeFastReturn(r)
    \/ GeLookup(r) \/ GeAcquire(r) \/ GeRecheck(r) \/ GeLoadOK(r) \/ GeLoadFail(r)
    \/ GeWriteActive(r) \/ GeRelease(r)
    \/ FbAcquire(r) \/ FbSynthOKAny(r) \/ FbSynthFail(r)
    \/ FbEncodeOKAny(r) \/ FbEncodeFailAny(r) \/ SseFullChunk(r) \/ SseFullDone(r)
    \/ StAcquire(r) \/ StPullChunk(r) \/ StPullEnd(r) \/ StPullFail(r)
    \/ StCommit(r) \/ StEmit(r) \/ StDisconnect(r) \/ SseFullDisconnect(r)
    \/ Finish(r)
NextSolo == BootNext \/ SoloNext("r1")
SpecSolo == Init /\ [][NextSolo]_vars

\* the manager used by its clients directly: get_engine with any key
CallNext(r) ==
    \/ Call(r) \/ GeReadKey(r) \/ GeTestFields(r) \/ GeFastReturn(r)
    \/ GeLookup(r) \/ GeAcquire(r) \/ GeRecheck(r) \/ GeLoadOK(r) \/ GeLoadFail(r)
    \/ GeWriteActive(r) \/ GeRelease(r) \/ Finish(r)
NextCalls == BootNext \/ \E r \in Requests : CallNext(r)
SpecCalls == Init /\ [][NextCalls]_vars

\* the requests served by one event loop.  audio_speech is a coroutine without
\* an await: from its first line to its return statement it occupies the
\* loop's thread, its lock acquisitions included (get_engine, the with block
\* of the full-buffer branch, the first next() of stream_pcm_audio).  What a
\* response does after the handler has returned is started by the loop (a
\* chunk handed to the client and the next one asked for, a disconnect
\* noticed); only the generator's own code, once asked, runs in a worker
\* thread.
LoopStep(r) ==
    LET InHandler(q) ==
            /\ pc[q] \notin {"idle", "done", "st_emit", "sf_chunk", "sf_done"}
            /\ ~(pc[q] = "st_pull" /\ produced[q] > 0)
    IN  /\ \/ pc[r] = "st_pull" /\ produced[r] > 0
           \/ \A q \in Requests \ {r} : ~InHandler(q)
        /\ RequestNext(r)

NextLoop == BootNext \/ \E r \in Requests : LoopStep(r)
SpecLoop == Init /\ [][NextLoop]_vars /\ WF_vars(NextLoop)

\* GET /health: a plain function, run by a worker thread while the event loop
\* runs the handlers.  It reads manager.active_engine (line 188), then
\* manager.active_spec (line 189), without infer_lock, and answers with the
\* fields of that spec and the sample rate of that engine (lines 190-198);
\* the request is authorized, and answered once startup has completed.
Health ==
    /\ \/ /\ call = NoCall
          /\ pc[Boot] = "s_done"
          /\ call' = [fn |-> "health", active_engine |-> active_engine]
          /\ UNCHANGED out
       \/ /\ call.fn = "health"
          /\ out = Returns(Unset)
          /\ out' = Returns(Some(
                [active_model |-> IF active_spec # None THEN Some(active_spec) ELSE Unset,
                 repo_id |-> IF active_spec # None THEN Some(<<"repo_id", active_spec>>)
                             ELSE Unset,
                 default_voice |-> IF active_spec # None /\ SpecDefaultVoice[active_spec] # None
                                   THEN Some(SpecDefaultVoice[active_spec]) ELSE Unset,
                 sample_rate |-> IF Truthy(call.active_engine)
                                 THEN Some(SampleRate[call.active_engine[1]])
                                 ELSE Unset]))
          /\ UNCHANGED call
    /\ UnitFrame

NextHealth == NextLoop \/ Health
SpecHealth == Init /\ [][NextHealth]_vars

\* load_registry_payload applied to every document
LoadRegistry ==
    /\ registry = NotLoaded
    /\ registry' = LoadRegistryPayload(payload)
    /\ UNCHANGED <<mgrVars, infer_lock, pc, idx, key, site, ret, pipeVars, bodyVars,
                   boot_error, payload, unitVars>>
InitRegistry == InitServer /\ payload \in Payloads /\ registry = NotLoaded
SpecRegistry == InitRegistry /\ [][LoadRegistry]_vars

\* the functions of the adapters, the engine and auth, each applied to every
\* argument
NextUnits ==
    \/ KokoroCall \/ ChatterboxCall \/ RequireAuthCall \/ BuildCall \/ EngineCall
    \/ LoadDefaultCall \/ StreamSseCall
SpecUnits == Init /\ [][NextUnits]_vars

\* ============================================================ properties
SynthPcs == {"fb_synth", "st_pull"}
InSynthesis(p) == IF p = Boot THEN pc[Boot] = "s_warm" ELSE pc[p] \in SynthPcs
Returned(r) == branch[r] # None
Cached(k) == engines_by_id[k]

\* C1: every synthesize_full call and every pull of a chunk from iter_chunks
\* (warmup, full buffer, chunked PCM, SSE PCM) runs while its thread holds
\* infer_lock, and no two threads are in such a step at the same time.
C1_OneSynthesisAtATime ==
    /\ \A p \in Procs : InSynthesis(p) => infer_lock = p
    /\ \A p, q \in Procs : InSynthesis(p) /\ InSynthesis(q) => p = q

\* a stream is pulling a later chunk while the other request waits to synthesize
C1_Witness ==
    \E r, q \in Requests :
        /\ pc[r] = "st_pull" /\ produced[r] >= 1
        /\ pc[q] \in {"fb_lock", "st_lock"}

\* C2: every get_engine(key) that returns yields (engine, spec, adapter) with
\* spec.id = key and (engine, adapter) the cache entry of key, under any
\* interleaving, the lock-free fast path included.
C2_ReturnsRequestedModel ==
    \A r \in Requests :
        Returned(r) =>
            /\ ret[r].spec = key[r]
            /\ ret[r].engine = Cached(key[r])
            /\ ret[r].adapter = Cached(key[r])

\* C3: in every reachable state, between the assignments of a switch too, a
\* non-empty active slot names a cached key, holds exactly the cached
\* (engine, adapter) of that key, and holds the spec of that key.
SlotNonEmpty ==
    active_key # None /\ Truthy(active_engine) /\ active_spec # None
        /\ Truthy(active_adapter)
C3_ActiveSlotConsistent ==
    SlotNonEmpty =>
        /\ Truthy(Cached(active_key))
        /\ active_engine = Cached(active_key)
        /\ active_adapter = Cached(active_key)
        /\ active_spec = active_key

\* C4: under every interleaving the backend of a model id is loaded at most
\* once, and every get_engine(key) that returns yields the one cached
\* (engine, adapter) pair of key, so that repeated calls agree.
C4_LoadedOnceSamePair ==
    /\ \A m \in Models : loads[m] <= 1
    /\ \A r \in Requests :
          Returned(r) => ret[r].engine = Cached(key[r]) /\ ret[r].adapter = Cached(key[r])

\* C5: the cache is append-only: once a model id maps to an (engine, adapter)
\* pair it maps to that same pair in every later state.
C5_CacheAppendOnly ==
    [][\A m \in Models : Truthy(engines_by_id[m]) => engines_by_id'[m] = engines_by_id[m]]_vars

\* both models are cached, startup has run, and a request has switched the
\* active slot away from the default model
C5_Witness ==
    /\ \A m \in Models : Truthy(engines_by_id[m])
    /\ pc[Boot] = "s_done"
    /\ active_key = "m2" /\ active_adapter = Cached("m2")

\* C6: on the chunked-PCM path the first chunk is obtained before the response
\* is committed; a backend that yields no chunk, or fails before its first
\* one, gives a 400 and no streaming response.
C6_FirstChunkBeforeCommit ==
    \A r \in Requests :
        branch[r] \in StreamBranches =>
            /\ status[r] = 200 => produced[r] >= 1
            /\ pc[r] = "done" /\ produced[r] = 0 =>
                   status[r] = 400 /\ result[r] = "error" /\ events[r] = <<>>

\* a chunked-PCM request whose backend gave no first chunk has ended with 400
C6_Witness ==
    \E r \in Requests :
        /\ branch[r] = "pcm" /\ pc[r] = "done" /\ produced[r] = 0
        /\ backend[r] \in {"exhausted", "failed"} /\ status[r] = 400

\* C7 as stated: in every response protocol no synthesis or encoding failure
\* occurs after status and headers are committed, a backend failure on a later
\* chunk of a PCM stream included.
C7_NoFailureAfterCommit ==
    \A r \in Requests : ~(status[r] = 200 /\ result[r] = "midfail")

\* C7 as amended: a failure of a full-buffer or SSE-full response, and a
\* failure up to the first chunk of a PCM or SSE-PCM stream, is answered by an
\* error status with nothing committed; the only failure after the commit is a
\* backend failure on a chunk after the first one of a PCM or SSE-PCM stream.
C7_FailureAfterCommitOnlyLaterChunk ==
    \A r \in Requests :
        /\ result[r] = "midfail" =>
               /\ branch[r] \in StreamBranches
               /\ produced[r] >= 1
               /\ backend[r] = "failed"
               /\ status[r] = 200
        /\ result[r] = "error" => status[r] \in {400, 500} /\ events[r] = <<>>
        /\ branch[r] \in {"full", "pcm", "sse_pcm", "sse_full"} \ StreamBranches /\ status[r] = 200 =>
               backend[r] = "exhausted" /\ result[r] # "error"

\* a committed chunked-PCM stream whose backend failed on a later chunk
C7_Witness ==
    \E r \in Requests :
        /\ branch[r] = "pcm" /\ result[r] = "midfail" /\ status[r] = 200
        /\ produced[r] >= 1

\* C8 as stated: a PCM stream holds infer_lock from before its first chunk
\* is asked for until the backend's sequence is exhausted or fails.
C8_HeldUntilExhaustedOrFailed ==
    \A r \in Requests :
        branch[r] \in StreamBranches /\ backend[r] \notin {"idle", "exhausted", "failed"}
            => infer_lock = r

SwitchPcs == {"ge_chk", "ge_load", "ge_w1", "ge_w2", "ge_w3", "ge_w4", "ge_unlock"}
BootPcs == {"s_loadall", "s_w1", "s_w2", "s_w3", "s_w4", "s_voice", "s_warm", "s_unlock"}
Producing(r) == pc[r] \in {"st_pull", "st_first", "st_emit"}

\* C8 as amended: a PCM stream holds infer_lock from before its first chunk is
\* asked for until its generator ends: the backend's sequence is exhausted, it
\* fails, or the generator is closed because the consumer went away.  In
\* between no other thread synthesizes or switches the active model.
C8_HeldWhileProducing ==
    \A r \in Requests :
        /\ Producing(r) =>
               /\ infer_lock = r
               /\ backend[r] = "running"
               /\ pc[Boot] \notin BootPcs
               /\ \A q \in Requests \ {r} : ~InSynthesis(q) /\ pc[q] \notin SwitchPcs
        /\ branch[r] \in StreamBranches /\ backend[r] \in {"running", "closed"}
               /\ infer_lock # r
               => backend[r] = "closed" /\ result[r] = "closed"

\* a committed stream is suspended after its first chunk was written out, a
\* second chunk is in hand, and the other request waits to switch the model
C8_Witness ==
    \E r, q \in Requests :
        /\ pc[r] = "st_emit" /\ produced[r] >= 2 /\ status[r] = 200
        /\ pc[q] = "ge_lock" /\ key[q] # active_key

\* C9 as stated: whenever a request gives infer_lock back, its synthesis has
\* run to completion or failure, also when the client of a stream went away.
LockReleasedBy(r) == infer_lock = r /\ infer_lock' # r
C9_DrivenToTheEnd ==
    [][\A r \in Requests :
          LockReleasedBy(r) /\ branch[r] # None
              => backend'[r] \in {"exhausted", "failed"}]_vars

\* C9 as amended: no step cancels a synthesis that holds infer_lock: a
\* full-buffer synthesis and every pull of a chunk end by completion or
\* failure.  A stream is driven by its consumer: when the client goes away no
\* further chunk is pulled and the lock is given back by closing the suspended
\* generator, the backend's sequence left unexhausted.
C9_ReleasedAtEndOrClose ==
    [][\A r \in Requests :
          LockReleasedBy(r) /\ branch[r] # None
              => \/ backend'[r] \in {"exhausted", "failed"}
                 \/ /\ branch[r] \in StreamBranches
                    /\ pc[r] = "st_emit"
                    /\ backend'[r] = "closed"
                    /\ result'[r] = "closed"]_vars

\* the client of a stream went away with chunks left: lock free, backend closed
C9_Witness ==
    \E r \in Requests :
        /\ branch[r] \in StreamBranches /\ result[r] = "closed"
        /\ backend[r] = "closed" /\ produced[r] < MaxChunks /\ infer_lock # r

IsDone(e) == e.type = "speech.audio.done"
DoneCount(ev) == Cardinality({i \in 1..Len(ev) : IsDone(ev[i])})
EndsWithOneDone(ev) ==
    /\ Len(ev) >= 1
    /\ IsDone(ev[Len(ev)])
    /\ ev[Len(ev)].usage = ZeroUsage
    /\ DoneCount(ev) = 1

\* C10 as stated: every SSE response that was started and not abandoned by
\* its client ends with exactly one done event, the last of the stream, also
\* when the PCM source fails mid-stream.
C10_DoneAlwaysLast ==
    \A r \in Requests :
        /\ pc[r] = "done" /\ branch[r] \in {"sse_pcm", "sse_full"}
        /\ status[r] = 200 /\ result[r] # "closed"
        => EndsWithOneDone(events[r])

\* C10 as amended: an SSE stream whose source is exhausted without failure
\* ends with exactly one done event with zeroed usage, its last event, however
\* many chunks were empty; no stream ever holds a second done event or an
\* event after it; when the PCM source fails mid-stream no done event is
\* written.
C10_DoneOnceUnlessSourceFails ==
    \A r \in Requests :
        /\ DoneCount(events[r]) <= 1
        /\ \A i \in 1..Len(events[r]) : IsDone(events[r][i]) => i = Len(events[r])
        /\ branch[r] \in {"sse_pcm", "sse_full"} /\ result[r] = "complete" => EndsWithOneDone(events[r])
        /\ result[r] = "midfail" => DoneCount(events[r]) = 0
        /\ branch[r] \notin {"sse_pcm", "sse_full"} => events[r] = <<>>

\* an SSE-PCM stream whose chunks were all empty ended with the done event alone
C10_Witness ==
    \E r \in Requests :
        /\ branch[r] = "sse_pcm" /\ result[r] = "complete" /\ produced[r] >= 1
        /\ Len(events[r]) = 1 /\ IsDone(events[r][1])

\* C11: whenever synthesis succeeds for an SSE request (at least one chunk, no
\* error), the stream holds a delta event with a non-empty payload before its
\* done event, on the SSE-PCM and the SSE full-buffer branch, also when the
\* chunks of the backend hold zero samples.
C11_DeltaBeforeDone ==
    \A r \in Requests :
        /\ branch[r] \in {"sse_pcm", "sse_full"} /\ result[r] = "complete" /\ produced[r] >= 1
        => \E i \in 1..Len(events[r]) :
               /\ events[r][i].type = "speech.audio.delta"
               /\ events[r][i].audio = "data"
               /\ \E j \in (i + 1)..Len(events[r]) : IsDone(events[r][j])

\* C12: every write to the cache or to a field of the active slot, by
\* load_all, load_default or get_engine, is made while infer_lock is held by
\* the writer: the process that takes the step (its position moves, or the
\* loop index of load_all does) holds the lock before the write and still
\* holds it after.
C12_WritesUnderLock ==
    [][<<engines_by_id, active_key, active_spec, active_engine, active_adapter>>'
           # <<engines_by_id, active_key, active_spec, active_engine, active_adapter>>
       => /\ infer_lock \in Procs
          /\ infer_lock' = infer_lock
          /\ pc'[infer_lock] # pc[infer_lock] \/ (infer_lock = Boot /\ idx' # idx)
          /\ \A p \in Procs \ {infer_lock} : pc'[p] = pc[p]]_vars

\* a request thread has stored a backend it loaded and is rewriting the active
\* slot, with the lock, after the startup thread wrote the cache and the slot
\* under it too
C12_Witness ==
    \E r \in Requests :
        /\ pc[r] = "ge_w3" /\ infer_lock = r
        /\ pc[Boot] = "s_done"
        /\ active_key = key[r] /\ active_key # DefaultModel
        /\ Truthy(engines_by_id[key[r]])

\* C13: get_engine(key) fails with an error for every key that is not a
\* catalog id: such a call never reaches the slow path's lock, never holds
\* infer_lock, returns nothing and ends in the error; and no step it takes
\* changes infer_lock, the cache or the active slot.
C13_UnknownKey(r) == pc[r] # "idle" /\ key[r] \notin Models
C13_UnknownKeyFails ==
    /\ [](\A r \in Requests :
              C13_UnknownKey(r)
                  => /\ pc[r] \in {"ge_k", "ge_slow", "done"}
                     /\ infer_lock # r
                     /\ ret[r] = NoRet
                     /\ pc[r] = "done" => result[r] = "error")
    /\ [][\A r \in Requests :
              C13_UnknownKey(r) /\ pc'[r] # pc[r]
                  => /\ infer_lock' = infer_lock
                     /\ <<engines_by_id, activeVars>>' = <<engines_by_id, activeVars>>]_vars

\* a call with an unknown key has failed while another thread, in the middle
\* of a switch, holds the lock
C13_Witness ==
    \E r, q \in Requests :
        /\ key[r] = "zz" /\ pc[r] = "done" /\ result[r] = "error"
        /\ infer_lock = q /\ pc[q] = "ge_w2"
        /\ active_key # None

\* C14: when load_all meets a model whose load fails it aborts with an error
\* naming that model id, loads no later catalog entry, and leaves in the
\* cache the entries present before the call plus those of the models loaded
\* before the failing one.  Step by step: while load_all runs, an entry
\* changes only by the insertion of the missing entry of the model in turn;
\* the failing step names the model in turn and changes no entry, every
\* earlier model being cached and the failing one absent; after the failure
\* nothing is loaded or stored.
C14_InLoadAll == pc[Boot] = "s_loadall" /\ idx <= Len(ModelsSeq)
C15_FailuresAnswered400 ==
    \A r \in Requests :
        pc[r] = "done" /\ result[r] = "error" => status[r] = 400

\* C17: every successful response, in each of the four branches, carries
\* X-Model, X-Voice, X-Sample-Rate and X-Latency-Ms; X-Model is the requested
\* model id, or the default model when none was requested, and X-Sample-Rate
\* is the sample rate of the engine that get_engine returned to the request,
\* the engine that synthesizes.
C17_ResponseHeaders ==
    \A r \in Requests :
        response[r] # NoResponse
            => /\ status[r] = 200
               /\ branch[r] \in {"full", "pcm", "sse_pcm", "sse_full"}
               /\ {"X-Model", "X-Voice", "X-Sample-Rate", "X-Latency-Ms"}
                      \subseteq DOMAIN response[r].headers
               /\ response[r].headers["X-Model"] = ModelKey(body[r].model)
               /\ response[r].headers["X-Model"] \in Models
               /\ response[r].headers["X-Sample-Rate"] = Str(SampleRate[ret[r].engine[1]])

\* two responses at once: a full-buffer response to a request that named no
\* model, and an SSE-PCM response to a request for the other model, made by
\* that model's engine while the active engine is the default model's
C17_Witness ==
    \E r, q \in Requests :
        /\ response[r] # NoResponse /\ branch[r] = "full" /\ body[r].model = None
        /\ response[r].headers["X-Model"] = DefaultModel
        /\ response[q] # NoResponse /\ branch[q] = "sse_pcm" /\ body[q].model = "m2"
        /\ response[q].headers["X-Sample-Rate"] = Str(22050)
        /\ ret[q].engine[1] = "m2" /\ active_engine[1] = "m1"

\* C16: a request whose model is not a catalog id is answered 400, and a
\* request whose input is the empty string, is empty after whitespace
\* normalization or is longer than the configured maximum is answered 400,
\* never another status (the request being authenticated).
C16_RefusedWith400 ==
    \A r \in Requests :
        /\ pc[r] = "done"
        /\ body[r].authorization = Some(<<"Bearer", " ", "k">>)
        /\ \/ ModelKey(body[r].model) \notin Models
           \/ NormalizeText(body[r].input) = <<>>
           \/ Len(NormalizeText(body[r].input)) > MaxChars
        => status[r] = 400

\* C18: for a valid model and voice whose synthesis succeeds, a request with
\* response_format wav and stream_format audio is answered with content type
\* audio/wav and a body of 44 + 2 * (number of samples) bytes, strictly
\* longer than the 44-byte header, whatever chunk sizes the backend produced.
C18_WavLongerThanHeader ==
    \A r \in Requests :
        response[r] # NoResponse /\ branch[r] = "full" /\ fmt[r] = [stream_format |-> "audio", response_format |-> "wav"]
            => /\ response[r].media_type = "audio/wav"
               /\ response[r].length = 44 + 2 * samples[r]
               /\ response[r].length > 44

C19_MediaTypes ==
    [f \in ResponseFormats |->
        CASE f = "wav" -> "audio/wav"
          [] f = "mp3" -> "audio/mpeg"
          [] f = "opus" -> "audio/ogg"
          [] f = "aac" -> "audio/aac"
          [] f = "flac" -> "audio/flac"
          [] f = "pcm" -> "application/octet-stream"]
C19_IsDelta(e) == e.type = "speech.audio.delta"
C19_DeltaCount(ev) == Cardinality({i \in 1..Len(ev) : C19_IsDelta(ev[i])})
\* protocol and media type as the table of (stream_format, response_format)
C19_Table ==
    \A r \in Requests :
        response[r] # NoResponse
            => LET sf == fmt[r].stream_format
                   rf == fmt[r].response_format
                   rs == response[r] IN
               /\ sf \in StreamFormats /\ rf \in ResponseFormats
               /\ sf = "audio" /\ rf # "pcm"
                      => /\ branch[r] = "full" /\ rs.media_type = C19_MediaTypes[rf]
                         /\ rs.length >= 0 /\ events[r] = <<>>
               /\ sf = "audio" /\ rf = "pcm"
                      => /\ branch[r] = "pcm" /\ rs.media_type = "application/octet-stream"
                         /\ rs.length = -1 /\ events[r] = <<>>
               /\ sf = "sse"
                      => /\ rs.media_type = "text/event-stream" /\ rs.length = -1
                         /\ branch[r] = IF rf = "pcm" THEN "sse_pcm" ELSE "sse_full"

\* C19 as stated: protocol and media type are a function of (stream_format,
\* response_format): audio with wav, mp3, opus, aac, flac is a full buffer of
\* type audio/wav, audio/mpeg, audio/ogg, audio/aac, audio/flac, audio with
\* pcm a chunked stream of application/octet-stream, sse always
\* text/event-stream, with pcm delivered as one delta per PCM chunk and every
\* other format as the whole encoded buffer in a single delta.
C19_OneDeltaPerChunk ==
    /\ C19_Table
    /\ \A r \in Requests :
          result[r] = "complete"
              => /\ branch[r] = "sse_pcm" => C19_DeltaCount(events[r]) = produced[r]
                 /\ branch[r] = "sse_full" => C19_DeltaCount(events[r]) = 1

\* C19 as amended: the same table of protocols and media types; on the sse
\* branches every event written is a delta that carries the non-empty chunk
\* in hand, or the done event; a non-empty chunk taken by the consumer gives
\* exactly one delta and an empty chunk gives none; a format other than pcm
\* gives at most one delta, which holds the whole encoded buffer.
C19_OneDeltaPerNonEmptyChunk ==
    /\ [](C19_Table /\ \A r \in Requests :
                           /\ C19_DeltaCount(events[r]) <= produced[r]
                           /\ branch[r] = "sse_full" => C19_DeltaCount(events[r]) <= 1)
    /\ [][\A r \in Requests :
              /\ events'[r] # events[r] /\ events'[r] # <<>>
                     => /\ Len(events'[r]) = Len(events[r]) + 1
                        /\ SubSeq(events'[r], 1, Len(events[r])) = events[r]
                        /\ LET e == events'[r][Len(events'[r])] IN
                           \/ IsDone(e) /\ held[r] = None
                           \/ /\ C19_IsDelta(e) /\ e.audio = "data"
                              /\ held[r] = "data" /\ held'[r] = None
              /\ branch[r] \in {"sse_pcm", "sse_full"} /\ held[r] # None /\ held'[r] = None
                     /\ result'[r] # "closed"
                     => C19_DeltaCount(events'[r])
                            = C19_DeltaCount(events[r]) + (IF held[r] = "data" THEN 1 ELSE 0)
      ]_vars

\* an SSE-PCM stream of two chunks, one of them empty, ended with one delta
\* and the done event
C19_Witness ==
    \E r \in Requests :
        /\ branch[r] = "sse_pcm" /\ result[r] = "complete"
        /\ fmt[r] = [stream_format |-> "sse", response_format |-> "pcm"]
        /\ response[r].media_type = "text/event-stream"
        /\ produced[r] = 2 /\ C19_DeltaCount(events[r]) = 1 /\ Len(events[r]) = 2

\* the three conditions of C20, read in the way most favourable to the code:
\* ids compared after stripping, a default_model that is the empty string
\* counted as not set, a catalog id being a stripped id
C20_Ids(p) == [i \in DOMAIN p.models |-> Strip(p.models[i].id)]
C20_IdsUniqueNonEmpty(p) ==
    /\ \A i \in DOMAIN p.models : C20_Ids(p)[i] # <<>>
    /\ \A i, j \in DOMAIN p.models : i # j => C20_Ids(p)[i] # C20_Ids(p)[j]
C20_DefaultVoicesListed(p) ==
    \A i \in DOMAIN p.models :
        p.models[i].default_voice # Unset /\ StrippedVoices(p.models[i]) # <<>>
            => p.models[i].default_voice \subseteq Range(StrippedVoices(p.models[i]))
C20_DefaultModelListed(p) ==
    p.default_model \notin {Unset, Some(<<>>)} => p.default_model \subseteq Range(C20_Ids(p))

\* C20: for every catalog with at least one model, load_registry_payload
\* succeeds if and only if the model ids are unique and non-empty, each
\* default_voice that is set belongs to its voices list when that list is
\* non-empty, and default_model, when set, is a catalog id; on success
\* default_model is a key of models_by_id.
C20_SucceedsIffWellFormed ==
    registry.state \in {"loaded", "error"} /\ payload.models # <<>>
        => /\ registry.state = "loaded"
                  <=> /\ C20_IdsUniqueNonEmpty(payload)
                      /\ C20_DefaultVoicesListed(payload)
                      /\ C20_DefaultModelListed(payload)
           /\ registry.state = "loaded" => registry.default_model \in registry.keys

\* C21 as stated: in every accepted catalog a model that declares a non-empty
\* voices list and no default_voice gets the first listed voice as its
\* default_voice; a model with an explicit default_voice keeps it; a model
\* with an empty voices list and no default_voice keeps none.
C21_FirstListedVoice ==
    registry.state = "loaded"
        => \A i \in DOMAIN payload.models :
               LET given == payload.models[i]
                   resolved == registry.models[i] IN
               /\ given.voices # <<>> /\ given.default_voice = Unset
                      => resolved.default_voice = Some(given.voices[1])
               /\ given.default_voice # Unset
                      => resolved.default_voice = given.default_voice
               /\ given.voices = <<>> /\ given.default_voice = Unset
                      => resolved.default_voice = Unset

\* the positions of the entries of a voices list that are not blank
C21_NonBlank(vs) == {k \in DOMAIN vs : Strip(vs[k]) # <<>>}
C21_First(ks) == CHOOSE k \in ks : \A j \in ks : k <= j
\* C21 as amended: in every accepted catalog a model with no default_voice
\* gets as default_voice the first entry of its voices list that is not
\* blank, with surrounding whitespace removed, and none when the list has no
\* such entry; a model with an explicit default_voice keeps it unchanged.
C21_FirstNonBlankVoice ==
    registry.state = "loaded"
        => \A i \in DOMAIN payload.models :
               LET given == payload.models[i]
                   resolved == registry.models[i]
                   ks == C21_NonBlank(given.voices) IN
               /\ given.default_voice = Unset /\ ks # {}
                      => resolved.default_voice = Some(Strip(given.voices[C21_First(ks)]))
               /\ given.default_voice = Unset /\ ks = {}
                      => resolved.default_voice = Unset
               /\ given.default_voice # Unset
                      => resolved.default_voice = given.default_voice

\* an accepted catalog with a model whose two voices differ and whose default
\* was filled with the first, and a model whose only voice entry is blank
\* and that was left without a default
C21_Witness ==
    /\ registry.state = "loaded"
    /\ \E i, j \in DOMAIN payload.models :
          /\ payload.models[i].voices = <<<<"v">>, <<"w">>>>
          /\ payload.models[i].default_voice = Unset
          /\ registry.models[i].default_voice = Some(<<"v">>)
          /\ payload.models[j].voices = <<<<" ">>>>
          /\ payload.models[j].default_voice = Unset
          /\ registry.models[j].default_voice = Unset

C22_IsCall == call.fn = "KokoroAdapter.resolve_voice"
C22_Given(x) == CHOOSE v \in x : TRUE
\* C22 as stated: for the kokoro adapter and every spec, resolve_voice(null)
\* returns the spec's default voice, or fails when none is configured;
\* resolve_voice of a string that is empty after trimming fails; for any other
\* string x, resolve_voice(x) fails if and only if the voices list is
\* non-empty and does not contain x, and otherwise returns x.
C22_ReturnsRequested ==
    C22_IsCall
        => /\ call.requested = Unset
                  => IF call.spec.default_voice = Unset THEN ~out.ok
                     ELSE out = Returns(call.spec.default_voice)
           /\ call.requested # Unset /\ Strip(C22_Given(call.requested)) = <<>> => ~out.ok
           /\ call.requested # Unset /\ Strip(C22_Given(call.requested)) # <<>>
                  => /\ ~out.ok <=> /\ call.spec.voices # <<>>
                                     /\ C22_Given(call.requested) \notin Range(call.spec.voices)
                     /\ out.ok => out.value = call.requested

\* C22 as amended: the same for null and for a string that is empty after
\* trimming; for any other string x, with t the string x without its
\* surrounding whitespace, resolve_voice(x) fails if and only if the voices
\* list is non-empty and does not contain t, and otherwise returns t.
C22_ReturnsTrimmed ==
    C22_IsCall
        => /\ call.requested = Unset
                  => IF call.spec.default_voice = Unset THEN ~out.ok
                     ELSE out = Returns(call.spec.default_voice)
           /\ call.requested # Unset /\ Strip(C22_Given(call.requested)) = <<>> => ~out.ok
           /\ call.requested # Unset /\ Strip(C22_Given(call.requested)) # <<>>
                  => /\ ~out.ok <=> /\ call.spec.voices # <<>>
                                     /\ Strip(C22_Given(call.requested))
                                            \notin Range(call.spec.voices)
                     /\ out.ok => out.value = Some(Strip(C22_Given(call.requested)))

\* a listed voice asked for with a leading blank was resolved to the listed
\* name
C22_Witness ==
    /\ C22_IsCall
    /\ call.spec.voices = <<<<"v">>, <<"w">>>>
    /\ call.requested = Some(<<" ", "v">>)
    /\ out = Returns(Some(<<"v">>))

\* resolve_voice of an extension-less name, with an existing reference directory
C23_IsCall ==
    /\ call.fn = "ChatterboxAdapter.resolve_voice"
    /\ call.dir.isdir
    /\ call.requested \in {Some(<<"clip">>), Some(<<"CLIP">>)}
\* the paths of the files of the directory named clip.<ext>, whatever the case
C23_Paths(ext) ==
    { Join(<<"d">>, e) : e \in {n \in EntryNames : /\ call.dir.entries[n] = "file"
                                                      /\ LowerStr(n) = <<"clip", ".", ext>>} }
\* C23 as stated: with an existing reference directory, resolve_voice("clip")
\* returns <dir>/clip.wav or <dir>/clip.flac (matched case-insensitively) when
\* exactly one of the two exists, and fails otherwise: when neither exists
\* and when both exist.
C23_ExactlyOneExists ==
    C23_IsCall
        => /\ C23_Paths("wav") # {} /\ C23_Paths("flac") = {}
                  => out.ok /\ out.value \subseteq C23_Paths("wav") /\ out.value # {}
           /\ C23_Paths("wav") = {} /\ C23_Paths("flac") # {}
                  => out.ok /\ out.value \subseteq C23_Paths("flac") /\ out.value # {}
           /\ (C23_Paths("wav") = {}) = (C23_Paths("flac") = {}) => ~out.ok

\* C23 as amended: with an existing reference directory, resolve_voice("clip")
\* returns <dir>/clip.wav (matched case-insensitively) when that file exists,
\* whether or not clip.flac exists too; otherwise <dir>/clip.flac when that
\* file exists; it fails only when neither exists.
C23_WavThenFlac ==
    C23_IsCall
        => /\ C23_Paths("wav") # {}
                  => out.ok /\ out.value \subseteq C23_Paths("wav") /\ out.value # {}
           /\ C23_Paths("wav") = {} /\ C23_Paths("flac") # {}
                  => out.ok /\ out.value \subseteq C23_Paths("flac") /\ out.value # {}
           /\ C23_Paths("wav") = {} /\ C23_Paths("flac") = {} => ~out.ok

\* both files exist, the wav under a name in capitals, and "clip" resolved to
\* the wav
C23_Witness ==
    /\ C23_IsCall
    /\ call.requested = Some(<<"clip">>)
    /\ call.dir.entries[<<"clip", ".", "wav">>] = "absent"
    /\ call.dir.entries[<<"CLIP", ".", "WAV">>] = "file"
    /\ call.dir.entries[<<"clip", ".", "flac">>] = "file"
    /\ out = Returns(Some(<<"d", "/", "CLIP", ".", "WAV">>))

C24_IsCall == call.fn = "ChatterboxAdapter.resolve_voice"
C24_Requested == CHOOSE x \in call.requested : TRUE
\* C24: for the chatterbox adapter, resolve_voice of a value that is not a bare
\* filename (it contains a path separator, or is "." or "..") fails whatever
\* the reference directory is and holds; every path resolved is the path of
\* a direct entry of the configured directory.
C24_BareFilenamesOnly ==
    C24_IsCall
        => /\ /\ call.requested # Unset
              /\ \/ "/" \in Range(C24_Requested)
                 \/ Strip(C24_Requested) \in {<<".">>, <<".", ".">>}
              => ~out.ok
           /\ out.ok /\ out.value # Unset
              => /\ call.dir.isdir
                 /\ \E e \in EntryNames :
                       /\ call.dir.entries[e] = "file"
                       /\ out.value = Some((CHOOSE d \in call.dir.path : TRUE) \o <<"/">> \o e)

\* the name of a file that exists above an existing reference directory was
\* refused as a path
C24_Witness ==
    /\ C24_IsCall
    /\ call.requested = Some(<<".", ".", "/", "clip", ".", "wav">>)
    /\ call.requested \subseteq OutsideFiles
    /\ call.dir.isdir
    /\ call.dir.entries[<<"clip", ".", "wav">>] = "file"
    /\ out = Raises("voice must be a filename, not a path")

C25_IsCall == call.fn = "ChatterboxAdapter.resolve_voice"
\* C25: for the chatterbox adapter, resolve_voice(null) and
\* resolve_voice("default") in any letter case return null, the built-in
\* voice, whatever the reference directory: unconfigured, missing or present.
C25_DefaultIsBuiltIn ==
    C25_IsCall
        => /\ call.requested = Unset => out = Returns(Unset)
           /\ call.requested \in {Some(<<"default">>), Some(<<"DEFAULT">>), Some(<<"Default">>)}
                  => out = Returns(Unset)
           /\ call.requested # Unset
                  /\ LowerStr(CHOOSE x \in call.requested : TRUE) = <<"default">>
                  => out = Returns(Unset)

\* "DEFAULT" was resolved to the built-in voice with no reference directory
\* configured
C25_Witness ==
    /\ C25_IsCall
    /\ call.requested = Some(<<"DEFAULT">>)
    /\ call.dir.path = Unset
    /\ out = Returns(Unset)

C26_IsCall == call.fn = "require_auth"
C26_Header == CHOOSE a \in call.authorization : TRUE
C26_HasBearer ==
    call.authorization \notin {Unset, Some(<<>>)} /\ StartsWith(C26_Header, BearerPrefix)
\* the token: what follows the prefix, without surrounding blanks
C26_Token == Strip(SubSeq(C26_Header, Len(BearerPrefix) + 1, Len(C26_Header)))
\* C26: require_auth succeeds when api_key is None, for every authorization
\* value; with a configured key it fails with 401 "Missing Bearer token" when
\* the header is absent or does not start with "Bearer ", fails with 401
\* "Invalid token" when the token after the prefix differs from the key, and
\* succeeds exactly when that token equals the key.
C26_TokenDecides ==
    C26_IsCall
        => /\ call.api_key = Unset => out = Returns(Unset)
           /\ call.api_key # Unset /\ ~C26_HasBearer
                  => out = Raises("401 Missing Bearer token")
           /\ call.api_key # Unset /\ C26_HasBearer
                  => IF Some(C26_Token) = call.api_key THEN out = Returns(Unset)
                     ELSE out = Raises("401 Invalid token")

\* the assignments of a switch that are under way: the first was made and
\* the last was not
C27_Switching ==
    \/ pc[Boot] \in {"s_w2", "s_w3", "s_w4"}
    \/ \E r \in Requests : pc[r] \in {"ge_w2", "ge_w3", "ge_w4"}
C27_Empty ==
    active_key = None /\ active_spec = None /\ active_engine = NoEngine
        /\ active_adapter = NoEngine
C27_Active(k) ==
    active_key = k /\ active_spec = k /\ active_engine = Cached(k)
        /\ active_adapter = Cached(k)
\* a step of get_engine(k) that assigns a field of the slot, under the lock
C27_ByGetEngine(r) ==
    /\ pc[r] \in {"ge_w1", "ge_w2", "ge_w3", "ge_w4"} /\ pc'[r] # pc[r]
    /\ infer_lock = r
    /\ active_key' \in {active_key, key[r]}
\* a step of load_default that assigns a field of the slot
C27_ByLoadDefault ==
    /\ pc[Boot] \in {"s_w1", "s_w2", "s_w3", "s_w4"} /\ pc'[Boot] # pc[Boot]
    /\ active_key' \in {active_key, DefaultModel}
C28_IsCall == call.fn = "_build_generate_kwargs"
C28_Keys == {kv[1] : kv \in out.value}
\* C28: for both adapters and every set of parameter names the backend
\* accepts, building the generation parameters for (text, voice, speed) fails
\* or returns a map whose keys all belong to the accepted set.
C28_OnlyAcceptedNames ==
    C28_IsCall /\ out.ok => C28_Keys \subseteq call.params

C29_IsCall == call.fn \in {"iter_chunks", "synthesize_full"}
C29_Failed == ~out.ok /\ out.error # ""
C29_Kinds == {call.results[i].kind : i \in DOMAIN call.results}
\* the chunks of the results that carry a usable array, in production order
RECURSIVE C29_Produced(_)
C29_Produced(results) ==
    IF results = <<>> THEN <<>>
    ELSE IF Head(results).kind = "array" /\ CoerceOK(Head(results))
    THEN <<Head(results).rows[1]>> \o C29_Produced(Tail(results))
    ELSE C29_Produced(Tail(results))
RECURSIVE C29_Flat(_)
C29_Flat(chunks) == IF chunks = <<>> THEN <<>> ELSE Head(chunks) \o C29_Flat(Tail(chunks))
C29_Clean ==
    /\ call.loaded /\ "voice" \in call.params /\ "missing" \notin C29_Kinds
    /\ \A i \in DOMAIN call.results :
          call.results[i].kind = "array" => CoerceOK(call.results[i])
\* C29 as stated, a result whose audio is None counted as one that lacks an
\* audio payload: generation fails before load and when any result lacks an
\* audio payload; synthesize_full fails when zero chunks were produced and
\* otherwise returns the concatenation of the produced chunks in order.
C29_FailsOnAnyMissingPayload ==
    C29_IsCall
        => /\ ~call.loaded => C29_Failed
           /\ C29_Kinds \cap {"missing", "none"} # {} => C29_Failed
           /\ call.fn = "synthesize_full" /\ C29_Produced(call.results) = <<>>
                  => C29_Failed
           /\ call.fn = "synthesize_full" /\ out.ok
                  => out.value = Some(C29_Flat(C29_Produced(call.results)))
\* C29: generation fails with a RuntimeError before load and when a result
\* of the backend has no audio attribute; a result whose audio is None is
\* skipped and is no failure by itself; synthesize_full fails when zero chunks
\* were produced, and otherwise (loaded, voice accepted, every result with an
\* audio attribute, every array mono) returns the concatenation of all
\* produced chunks in production order.
C29_FailsOnMissingAttribute ==
    C29_IsCall
        => /\ ~call.loaded => C29_Failed
           /\ "missing" \in C29_Kinds => C29_Failed
           /\ call.fn = "synthesize_full" /\ C29_Produced(call.results) = <<>>
                  => C29_Failed
           /\ call.fn = "synthesize_full" /\ C29_Clean
                  /\ C29_Produced(call.results) # <<>>
                  => out = Returns(Some(C29_Flat(C29_Produced(call.results))))
           /\ call.fn = "iter_chunks" /\ C29_Clean
                  => out = Returns(Some(C29_Produced(call.results)))
\* a result with audio None between two chunks: both chunks are returned
C29_Witness ==
    /\ call.fn = "synthesize_full" /\ C29_Clean
    /\ Len(call.results) = 3 /\ call.results[2].kind = "none"
    /\ out = Returns(Some(<<2, 3, 1>>))

C30_FullBuffer(r) == branch[r] \in {"full", "sse_full"}
\* C30: a request that answers with a full buffer holds infer_lock exactly
\* while synthesize_full drains the engine: it holds it there, and holds it
\* neither before, nor while build_full_response and the external encoder run,
\* nor while the encoded buffer is sent.
C30_EncodesOutsideLock ==
    \A r \in Requests :
        /\ pc[r] = "fb_synth" => infer_lock = r
        /\ C30_FullBuffer(r) /\ pc[r] \in {"fb_lock", "fb_enc", "sf_chunk", "sf_done", "done"}
               => infer_lock # r
\* one request encodes while another synthesizes under the lock
C30_Witness ==
    \E r, q \in Requests :
        /\ r # q /\ pc[r] = "fb_enc" /\ C30_FullBuffer(r)
        /\ pc[q] = "fb_synth" /\ infer_lock = q

C31_IsCall == call.fn = "load_default"
C31_Did == CHOOSE d \in out.value : TRUE
\* the warmup text: the override of the spec, else the supplied fallback
C31_Text ==
    IF call.spec_warmup \notin {Unset, Some(<<>>)}
    THEN CHOOSE t \in call.spec_warmup : TRUE ELSE call.warmup_text
\* what the adapter makes of the default voice of the spec
C31_Resolved ==
    IF call.default_voice \in {Unset, Some(<<>>)} THEN {Returns(Unset)}
    ELSE IF call.adapter = "kokoro"
    THEN {KokoroResolveVoice([voices |-> <<>>, default_voice |-> call.default_voice],
                             call.default_voice)}
    ELSE ChatterboxResolveVoice(call.dir, call.default_voice)
\* C31: load_default loads or reuses the cached entry of the default model
\* and makes it active; it then performs exactly one warmup synthesis if the
\* warmup text is non-empty and the default voice resolves to a non-null voice
\* or the adapter requires none, and no synthesis otherwise; a failure of
\* voice resolution or of the warmup propagates to the caller.
C31_WarmsUpOnceIfUsable ==
    C31_IsCall /\ ~(call.fails = "load" /\ ~call.cached)
        => /\ C31_Did.active /\ C31_Did.loads = (IF call.cached THEN 0 ELSE 1)
           /\ \E v \in C31_Resolved :
                 /\ ~v.ok => ~out.ok /\ out.error = v.error /\ C31_Did.synths = 0
                 /\ v.ok => /\ C31_Did.synths =
                                  (IF C31_Text # <<>>
                                       /\ (v.value # Unset \/ call.adapter = "chatterbox")
                                   THEN 1 ELSE 0)
                            /\ C31_Did.synths = 1 => C31_Did.voice = v.value
                                                      /\ C31_Did.text = C31_Text
                            /\ out.ok <=> ~(C31_Did.synths = 1
                                             /\ call.fails = "synthesize_full")
\* a kokoro default model without a default voice: no warmup although there
\* is a text
C31_Witness ==
    /\ C31_IsCall /\ call.adapter = "kokoro" /\ call.default_voice = Unset
    /\ call.warmup_text = <<"h">> /\ out.ok /\ C31_Did.synths = 0
    /\ C31_Did.active /\ C31_Did.loads = 0

C32_IsCall == call.fn = "stream_sse"
C32_Events == CHOOSE ev \in out.value : TRUE
C32_Deltas == SelectSeq(C32_Events, LAMBDA e : e.type = "speech.audio.delta")
C32_NonEmpty == SelectSeq(call.chunks, LAMBDA c : c # <<>>)
\* base64 decoding: four characters give three bytes, fewer before "="
RECURSIVE C32_Decode(_)
C32_Decode(t) ==
    IF t = <<>> THEN <<>>
    ELSE LET n == t[1] * 262144 + t[2] * 4096 + (t[3] % 64) * 64 + (t[4] % 64)
             three == <<n \div 65536, (n \div 256) % 256, n % 256>> IN
         (IF t[3] = 64 THEN SubSeq(three, 1, 1)
          ELSE IF t[4] = 64 THEN SubSeq(three, 1, 2) ELSE three)
             \o C32_Decode(SubSeq(t, 5, Len(t)))
RECURSIVE C32_Concat(_)
C32_Concat(q) == IF q = <<>> THEN <<>> ELSE Head(q) \o C32_Concat(Tail(q))
\* C32: stream_sse emits exactly one speech.audio.delta event per non-empty
\* input chunk, in the order of the chunks, each carrying the base64 encoding
\* of exactly that chunk; empty chunks produce no event, so decoding and
\* concatenating the payloads yields the concatenation of the input chunks.
C32_OneDeltaPerNonEmptyChunk ==
    C32_IsCall
        => /\ Len(C32_Deltas) = Len(C32_NonEmpty)
           /\ \A i \in DOMAIN C32_Deltas :
                 /\ C32_Events[i] = C32_Deltas[i]
                 /\ C32_Decode(C32_Deltas[i].audio) = C32_NonEmpty[i]
                 /\ Len(C32_Deltas[i].audio) = 4 * ((Len(C32_NonEmpty[i]) + 2) \div 3)
                 /\ \A j \in DOMAIN C32_Deltas[i].audio :
                       C32_Deltas[i].audio[j] = 64 => j > Len(C32_Deltas[i].audio) - 2
           /\ C32_Concat([i \in DOMAIN C32_Deltas |-> C32_Decode(C32_Deltas[i].audio)])
                  = C32_Concat(call.chunks)
\* an empty chunk between two chunks: two events, "TWE=" and "/w=="
C32_Witness ==
    /\ C32_IsCall /\ call.chunks = <<<<77, 97>>, <<>>, <<255>>>>
    /\ Len(C32_Events) = 3
    /\ C32_Events[1].audio = <<19, 22, 4, 64>> /\ C32_Events[2].audio = <<63, 48, 64, 64>>

C33_IsCall == call.fn = "_build_generate_kwargs" /\ call.adapter = "chatterbox"
C33_Aliases == <<"ref_audio", "audio_prompt_path", "audio_prompt">>
\* the aliases among the keys passed, with their values
C33_Passed == {kv \in out.value : kv[1] \in Range(C33_Aliases)}
\* the positions of the aliases the backend accepts
C33_Accepted == {i \in DOMAIN C33_Aliases : C33_Aliases[i] \in call.params}
\* C33: for the chatterbox adapter, a resolved voice is passed under exactly
\* one alias, the first of ref_audio, audio_prompt_path, audio_prompt that
\* the backend accepts; building fails when it accepts none of the three; and
\* without a voice none of the three is passed.
C33_FirstAcceptedAlias ==
    C33_IsCall
        => IF call.voice = Unset THEN out.ok /\ C33_Passed = {}
           ELSE IF C33_Accepted = {} THEN ~out.ok /\ out.error # ""
           ELSE /\ out.ok
                /\ \E i \in C33_Accepted :
                      /\ \A j \in C33_Accepted : i <= j
                      /\ C33_Passed = {<<C33_Aliases[i], CHOOSE v \in call.voice : TRUE>>}
\* the backend accepts the second and the third alias: the second is used
C33_Witness ==
    /\ C33_IsCall /\ call.params = {"text", "audio_prompt_path", "audio_prompt"}
    /\ out.ok /\ C33_Passed = {<<"audio_prompt_path", <<"v">>>>}

\* ---- C34
C34_LockPcs == {"ge_lock", "fb_lock", "st_lock"}

C34_Waiting(r) == pc[r] \in C34_LockPcs

\* C34: no reachable state is a deadlock: whenever a request waits for
\* infer_lock, some step of the server is possible
C34_NoDeadlock ==
    (\E r \in Requests : C34_Waiting(r)) => ENABLED NextLoop

\* ---- C35
C35_Over(p) == pc[p] \in {"idle", "done", "s_done", "s_failed"}

\* C35: a request that has finished, whatever way it ended, and a startup
\* that has ended, with or without a failure, do not hold infer_lock
C35_ReleasedOnEveryExit ==
    \A p \in Procs : C35_Over(p) => infer_lock # p

\* startup has ended, one request has ended with a backend error in the
\* middle of its chunked stream and another with an error before any output
C35_Witness ==
    /\ pc[Boot] = "s_done"
    /\ \E r, q \in Requests :
          /\ pc[r] = "done" /\ result[r] = "midfail"
          /\ pc[q] = "done" /\ result[q] = "error"

\* ---- C36
\* what the first failing check of a body that passed validation answers, in
\* the order authentication, model, input; <<0, "">> when none fails
C36_Expected(b) ==
    IF b.authorization = Unset THEN <<401, "401 Missing Bearer token">>
    ELSE IF b.authorization # Some(<<"Bearer", " ", "k">>)
    THEN <<401, "401 Invalid token">>
    ELSE IF b.model \notin Models \cup {None} THEN <<400, "Invalid model">>
    ELSE IF \A i \in DOMAIN b.input : b.input[i] = " "
    THEN <<400, "input must be non-empty">>
    ELSE IF Len(NormalizeText(b.input)) > MaxChars THEN <<400, "input too long">>
    ELSE <<0, "">>

C36_Arrives(r) == pc[r] = "idle" /\ pc'[r] # "idle" /\ SchemaValid(body'[r])

\* C36: a request refused for authentication, for its model or for its input
\* ends in the step it arrives in, answered by the first failing check in
\* the order auth, model, input, with the cache, the load counts, the active
\* slot and infer_lock as they were; a request that no check refuses goes on
C36_RejectedBeforeAnyWork ==
    [][\A r \in Requests :
          C36_Arrives(r) =>
              IF C36_Expected(body'[r]) = <<0, "">>
              THEN pc'[r] # "done" /\ status'[r] = 0
              ELSE /\ pc'[r] = "done"
                   /\ <<status'[r], result'[r]>> = C36_Expected(body'[r])
                   /\ UNCHANGED <<mgrVars, infer_lock>>]_vars

\* with a model active, a request is refused for its unknown model although
\* its input is blank too
C36_Witness ==
    \E r \in Requests :
        /\ pc[r] = "done" /\ status[r] = 400 /\ result[r] = "Invalid model"
        /\ body[r].model = "zz" /\ body[r].input = <<" ">>
        /\ active_key # None /\ loads[DefaultModel] > 0

\* ---- C37
C37_Started == pc[Boot] = "s_done"

\* C37: once startup has completed every catalog model is cached and has
\* been loaded exactly once, the step that completes startup leaves the
\* default model active, and from then on no get_engine call is at its load
\* and neither the cache nor a load count changes
C37_StartupLoadsAllOnce ==
    /\ [](C37_Started =>
             /\ \A m \in Models : Truthy(engines_by_id[m]) /\ loads[m] = 1
             /\ \A r \in Requests : pc[r] # "ge_load")
    /\ [][/\ ~C37_Started /\ C37_Started' =>
                /\ active_key' = DefaultModel /\ active_spec' = DefaultModel
                /\ active_engine' = engines_by_id'[DefaultModel]
                /\ active_adapter' = engines_by_id'[DefaultModel]
          /\ C37_Started => UNCHANGED <<engines_by_id, loads>>]_vars

\* after startup a get_engine call for the other catalog model has switched
\* the active slot and is about to return
C37_Witness ==
    /\ C37_Started
    /\ \E r \in Requests :
          /\ pc[r] = "ge_unlock" /\ key[r] = "m2" /\ infer_lock = r
          /\ active_key = "m2" /\ active_engine = engines_by_id["m2"]
          /\ loads = [m \in Models |-> 1]

\* ---- C38
\* the positions of a get_engine call up to its load
C38_BeforeSwitch ==
    {"ge_k", "ge_e", "ge_s", "ge_a", "ge_slow", "ge_lock", "ge_chk", "ge_rs", "ge_ra",
     "ge_re", "ge_load"}

C38_LoadFails(r) == pc[r] = "ge_load" /\ pc'[r] = "done"

\* C38: a get_engine(key) call whose load fails ends with the error, gives
\* infer_lock back, leaves no cache entry for key, and neither its failing
\* step nor any step it took before changes a field of the active slot
C38_FailedLoadChangesNothing ==
    [][\A r \in Requests :
          /\ pc[r] \in C38_BeforeSwitch /\ pc'[r] # pc[r]
                => UNCHANGED activeVars
          /\ C38_LoadFails(r) =>
                /\ infer_lock = r /\ infer_lock' = Free
                /\ result'[r] = "error" /\ status'[r] \in {400, 500}
                /\ ~Truthy(engines_by_id[key[r]])
                /\ UNCHANGED <<engines_by_id, loads>>]_vars

\* get_engine("m2") has failed at its load while m1 was active: m2 is not
\* cached and m1 is still active
C38_Witness ==
    \E r \in Requests :
        /\ pc[r] = "done" /\ result[r] = "error" /\ key[r] = "m2"
        /\ ~Truthy(engines_by_id["m2"]) /\ infer_lock # r
        /\ active_key = "m1" /\ active_spec = "m1"
        /\ active_engine = engines_by_id["m1"] /\ active_adapter = engines_by_id["m1"]
        /\ Truthy(active_engine)

\* ---- C39
\* the step in which the get_engine call of resolve_voice returns and the
\* adapter refuses the voice
C39_VoiceRefused(r) ==
    /\ site[r] = "rv" /\ pc[r] \in {"ge_ra", "ge_chk", "ge_unlock"}
    /\ pc'[r] = "done"

\* C39: when a request for key is refused for its voice, the refusal is a
\* 400 given by the adapter cached for key, which does refuse some voice,
\* and key is the active model: the four fields of the slot are those of key
C39_RefusedVoiceLeavesKeyActive ==
    [][\A r \in Requests :
          C39_VoiceRefused(r) =>
              /\ status'[r] = 400 /\ result'[r] = "error"
              /\ ret'[r].spec = key[r]
              /\ ret'[r].adapter = engines_by_id[key[r]]
              /\ Truthy(engines_by_id[key[r]])
              /\ \E v \in {"none", "v1", "bad"} : ~AdapterResolves(key[r], v)
              /\ active_key' = key[r] /\ active_spec' = key[r]
              /\ active_engine' = engines_by_id[key[r]]
              /\ active_adapter' = engines_by_id[key[r]]]_vars

\* startup made m1 active; a request for m2 has been refused for its voice
\* and m2 is the active model
C39_Witness ==
    /\ DefaultModel = "m1" /\ pc[Boot] = "s_done"
    /\ \E r \in Requests :
          /\ pc[r] = "done" /\ status[r] = 400 /\ result[r] = "error"
          /\ body[r].model = "m2" /\ key[r] = "m2" /\ site[r] = "rv"
          /\ ret[r].adapter = engines_by_id["m2"]
          /\ active_key = "m2" /\ active_adapter = engines_by_id["m2"]

\* ---- C40
C40_Answered == call.fn = "health" /\ out.value # Unset

C40_Response == CHOOSE h \in out.value : TRUE

\* C40: every health response has its four model fields null or describes
\* one model: the reported sample rate is the rate of the engine cached for
\* the reported active model
C40_DescribesOneModel ==
    C40_Answered =>
        LET h == C40_Response IN
        \/ /\ h.active_model = Unset /\ h.repo_id = Unset
           /\ h.default_voice = Unset /\ h.sample_rate = Unset
        \/ \E m \in Models :
              /\ h.active_model = Some(m) /\ h.repo_id = Some(<<"repo_id", m>>)
              /\ Truthy(engines_by_id[m])
              /\ h.sample_rate = Some(SampleRate[engines_by_id[m][1]])

============================================================================
